---- MODULE Spec2Model ----
(***************************************************************************)
(* Custom-resource lifecycle handlers of liflig-cdk-vy: the app-client and *)
(* the resource-server Lambda handlers, the response helpers they share    *)
(* and the signed HTTP client they call.                                   *)
(*                                                                         *)
(* A JavaScript value is a record [t, s, b, a]: t is its typeof tag, s the *)
(* characters of a string, b a boolean, a the elements of an array.        *)
(* A JavaScript string is the tuple of its characters. An object is a      *)
(* TLA+ record whose fields are the object's keys.                         *)
(***************************************************************************)
EXTENDS Integers, Sequences, FiniteSets, TLC

VARIABLES
    handlerKind,   \* which Lambda is running: "app-client" or "resource-server"
    event,         \* the CustomResourceRequest of the running invocation
    pc,            \* position of the invocation: idle, an await point, or done
    calls,         \* signedRequest calls issued by the running invocation, in order
    responses,     \* what those calls returned, in order
    outcome,       \* the CustomResourceResponse returned by the invocation
    deleted,       \* handler and key of the last DELETE the remote answered 200,
                   \* until a Create returns SUCCESS
    created,       \* handler and physicalId of the last Create that returned
                   \* SUCCESS, until a Delete returns SUCCESS
    COGNITO_BASE_DOMAIN,
                   \* the module-level constant of the Lambda's process, set
                   \* when the handler module is loaded
    probe          \* the last call of a library function or construct method:
                   \* its name, its arguments and what it returned or threw

handlerVars ==
    <<handlerKind, event, pc, calls, responses, outcome, deleted, created,
      COGNITO_BASE_DOMAIN>>
vars ==
    <<handlerKind, event, pc, calls, responses, outcome, deleted, created,
      COGNITO_BASE_DOMAIN, probe>>

(***************************************************************************)
(* Bounds of the model.                                                    *)
(***************************************************************************)
\* longest declared Scopes list of a resource server
MaxScopes == 2

(***************************************************************************)
(* JavaScript values.                                                      *)
(***************************************************************************)
undefined == [t |-> "undefined", s |-> <<>>, b |-> FALSE, a |-> <<>>]
Str(chars) == [t |-> "string", s |-> chars, b |-> FALSE, a |-> <<>>]
Bool(v) == [t |-> "boolean", s |-> <<>>, b |-> v, a |-> <<>>]
Arr(items) == [t |-> "array", s |-> <<>>, b |-> FALSE, a |-> items]

\* JavaScript truthiness of a value
Truthy(x) ==
    CASE x.t = "undefined" -> FALSE
      [] x.t = "string" -> x.s # <<>>
      [] x.t = "boolean" -> x.b
      [] OTHER -> TRUE

\* x || y
Or(x, y) == IF Truthy(x) THEN x ELSE y

\* x ?? y
Nullish(x, y) == IF x.t = "undefined" THEN y ELSE x

\* x === y for the values of the model
StrictEq(x, y) == x = y

(***************************************************************************)
(* Character strings used as inputs.                                       *)
(***************************************************************************)
chTrue == <<"t", "r", "u", "e">>
chTrueCap == <<"T", "r", "u", "e">>
chFalse == <<"f", "a", "l", "s", "e">>
chUndefined == <<"u", "n", "d", "e", "f", "i", "n", "e", "d">>
chUnknown == <<"u", "n", "k", "n", "o", "w", "n">>
chFrontend == <<"f", "r", "o", "n", "t", "e", "n", "d">>
chBackend == <<"b", "a", "c", "k", "e", "n", "d">>
chProd == <<"p", "r", "o", "d">>
chTest == <<"t", "e", "s", "t">>
chStage == <<"s", "t", "a", "g", "e">>
chDev == <<"d", "e", "v">>
chDelegated == <<"d", "e", "l", "e", "g", "a", "t", "e", "d">>
chAppClients == <<"/", "a", "p", "p", "-", "c", "l", "i", "e", "n", "t", "s">>
chResourceServers ==
    <<"/", "r", "e", "s", "o", "u", "r", "c", "e", "-", "s", "e", "r", "v", "e", "r", "s">>
\* two keys: a plain one and one with URL-unsafe characters
keyA == <<"a", "p", "p">>
keyB == <<"h", ":", "/", "b">>

(***************************************************************************)
(* Text built by template literals: the sequence of its segments, each a   *)
(* literal piece, a number printed in decimal, or an interpolated text.    *)
(***************************************************************************)
NoBody == [json |-> FALSE, text |-> <<>>, value |-> <<>>]
Lit(text) == [k |-> "lit", text |-> text, n |-> 0, body |-> NoBody]
Num(n) == [k |-> "num", text |-> "", n |-> n, body |-> NoBody]
Txt(body) == [k |-> "txt", text |-> "", n |-> 0, body |-> body]

\* the text has seg as one of its segments
Contains(text, seg) == \E i \in 1..Len(text) : text[i] = seg

(***************************************************************************)
(* Exceptions: a computation returns a value or throws an Error.           *)
(***************************************************************************)
Return(v) == [threw |-> FALSE, error |-> <<>>, value |-> v]
Throw(message) == [threw |-> TRUE, error |-> message, value |-> <<>>]

(***************************************************************************)
(* shared/custom-resource-handler.ts                                       *)
(***************************************************************************)
\* mutant: a success response that has a Reason as well
createSuccessResponseWithReason(physicalResourceId, data) ==
    [Status |-> "SUCCESS", PhysicalResourceId |-> physicalResourceId, Data |-> data,
     Reason |-> <<>>]

createSuccessResponse(physicalResourceId, data) ==
    [Status |-> "SUCCESS", PhysicalResourceId |-> physicalResourceId, Data |-> data]

\* a catch block that lets the error escape instead of reporting it
createFailureResponseRethrown(physicalResourceId, reason) ==
    [Status |-> "RAISED", PhysicalResourceId |-> physicalResourceId, Reason |-> reason]

createFailureResponse(physicalResourceId, reason) ==
    [Status |-> "FAILED", PhysicalResourceId |-> physicalResourceId, Reason |-> reason]

\* every value thrown in the handlers is an Error: its message is the reason
handleError(error) == error

(***************************************************************************)
(* shared/sigv4-client.ts                                                  *)
(***************************************************************************)
\* mutant: the environment named in the host for prod as well
createUrlFromEnvironmentEveryEnv(baseUrl, urlPrefix, environment) ==
    urlPrefix \o <<".">> \o environment.s \o <<".">> \o baseUrl

createUrlFromEnvironment(baseUrl, urlPrefix, environment) ==
    IF environment = Str(chProd)
    THEN urlPrefix \o <<".">> \o baseUrl
    ELSE urlPrefix \o <<".">> \o
         (IF environment.t = "undefined" THEN chUndefined ELSE environment.s)
         \o <<".">> \o baseUrl

\* the request signedRequest sends for its options: one HTTPS request to
\* the given host and path, the body passed on as given
signedRequest(options) ==
    [method |-> options.method,
     protocol |-> "https:",
     hostname |-> options.hostname,
     path |-> options.path,
     body |-> options.body]

\* what signedRequest returns for what fetch gave: the status and the body
\* text as received, or the rejection of fetch passed on
signedRequestReturn(fetched) ==
    IF fetched.threw
    THEN Throw(<<Lit("fetch failed")>>)
    ELSE Return([statusCode |-> fetched.status, body |-> fetched.text])

(***************************************************************************)
(* Built-ins.                                                              *)
(***************************************************************************)
\* encodeURIComponent of one character: unreserved characters are kept, the
\* others become the percent-escape of their UTF-8 byte
EscapeChar(c) ==
    CASE c = "/" -> <<"%", "2", "F">>
      [] c = ":" -> <<"%", "3", "A">>
      [] c = "?" -> <<"%", "3", "F">>
      [] c = "%" -> <<"%", "2", "5">>
      [] c = " " -> <<"%", "2", "0">>
      [] OTHER -> <<c>>

RECURSIVE EscapeChars(_)
EscapeChars(chars) ==
    IF chars = <<>> THEN <<>>
    ELSE EscapeChar(Head(chars)) \o EscapeChars(Tail(chars))

\* mutant: the key inserted as it is
encodeURIComponentAsIs(x) ==
    IF x.t = "undefined" THEN chUndefined ELSE x.s

\* encodeURIComponent(x): x is converted to a string first
encodeURIComponent(x) ==
    IF x.t = "undefined" THEN chUndefined ELSE EscapeChars(x.s)

\* an object without the keys whose value is undefined
Defined(obj) == [key \in {f \in DOMAIN obj : obj[f] # undefined} |-> obj[key]]

\* JSON.stringify(obj) leaves out the keys whose value is undefined; the text
\* is represented by the object it encodes
JSONstringify(obj) == [json |-> TRUE, text |-> <<>>, value |-> Defined(obj)]

\* the message of the SyntaxError of JSON.parse for a text that is not JSON:
\* the empty text ends too early, another text is refused at its first
\* character (no text of the model starts as JSON does) and is quoted whole
SyntaxErrorMessage(body) ==
    IF body.text = <<>>
    THEN <<Lit("Unexpected end of JSON input")>>
    ELSE <<Lit("Unexpected token '"),
           Txt([json |-> FALSE, text |-> <<Head(body.text)>>, value |-> <<>>]),
           Lit("', \""), Txt(body), Lit("\" is not valid JSON")>>

\* JSON.parse(text) throws a SyntaxError for a text that is not JSON
JSONparse(body) ==
    IF body.json
    THEN Return(body.value)
    ELSE Throw(SyntaxErrorMessage(body))

\* obj.key: undefined when the object has no such key
Get(obj, key) == IF key \in DOMAIN obj THEN obj[key] ELSE undefined

\* the template `<what>: ${response.statusCode} - ${response.body}`
StatusMessage(what, response) ==
    <<Lit(what), Num(response.statusCode), Lit(" - "), Txt(response.body)>>

(***************************************************************************)
(* cognito-app-client handler: the remote calls.  Each async function is   *)
(* split at its await: the request it issues, and what it does with the    *)
(* response signedRequest resolved to.                                     *)
(***************************************************************************)
chCognitoVydev ==
    <<"c", "o", "g", "n", "i", "t", "o", ".", "v", "y", "d", "e", "v", ".", "i", "o">>

\* process.env.COGNITO_BASE_DOMAIN || "cognito.vydev.io", evaluated when the
\* module is loaded
LoadedBaseDomain(env) == Or(env, Str(chCognitoVydev)).s

\* what process.env.COGNITO_BASE_DOMAIN may be: not set, empty, or the
\* cognitoBaseDomain the provider was given
ProcessEnvs == {undefined, Str(<<>>), Str(<<"i", "d", ".", "x">>)}

createAppClientRequest(baseUrl, client) ==
    signedRequest([method |-> "POST", hostname |-> baseUrl,
                   path |-> chAppClients, body |-> JSONstringify(client)])

createAppClient(response) ==
    IF response.statusCode # 201
    THEN Throw(StatusMessage("Could not create resource: ", response))
    ELSE JSONparse(response.body)

readAppClientRequest(baseUrl, name) ==
    signedRequest([method |-> "GET", hostname |-> baseUrl,
                   path |-> chAppClients \o <<"/">> \o encodeURIComponent(name),
                   body |-> NoBody])

readAppClient(response) ==
    IF response.statusCode # 200
    THEN Throw(StatusMessage("Could not read resource: ", response))
    ELSE JSONparse(response.body)

updateAppClientRequest(baseUrl, update) ==
    signedRequest([method |-> "PUT", hostname |-> baseUrl,
                   path |-> chAppClients \o <<"/">> \o encodeURIComponent(update.name),
                   body |-> JSONstringify(update)])

\* mutant: the status of the PUT is not looked at
updateAppClientIgnoresStatus(response) == Return(undefined)

updateAppClient(response) ==
    IF response.statusCode # 200
    THEN Throw(StatusMessage("Could not update resource: ", response))
    ELSE Return(undefined)

\* mutant: the key overwritten where it is to be removed
deleteAppClientRequestAsPut(baseUrl, name) ==
    signedRequest([method |-> "PUT", hostname |-> baseUrl,
                   path |-> chAppClients \o <<"/">> \o encodeURIComponent(name),
                   body |-> NoBody])

deleteAppClientRequest(baseUrl, name) ==
    signedRequest([method |-> "DELETE", hostname |-> baseUrl,
                   path |-> chAppClients \o <<"/">> \o encodeURIComponent(name),
                   body |-> NoBody])

\* mutant: no soft fail on 404
deleteAppClientStrict(response) ==
    IF response.statusCode # 200
    THEN Throw(StatusMessage("Could not delete resource: ", response))
    ELSE Return(undefined)

deleteAppClient(response) ==
    IF response.statusCode # 200
    THEN IF response.statusCode = 404
         THEN Return(undefined)   \* soft fail: console.warn only
         ELSE Throw(StatusMessage("Could not delete resource: ", response))
    ELSE Return(undefined)

(***************************************************************************)
(* cognito-app-client handler: the pieces of handler().                    *)
(***************************************************************************)
AppClientBaseUrl(props) ==
    createUrlFromEnvironment(COGNITO_BASE_DOMAIN, chDelegated, props.Environment)

\* mutant: the flag coerced by truthiness
generate_secret_truthy(props) == Truthy(props.GenerateSecret)

\* typeof GenerateSecret === "boolean" ? GenerateSecret : GenerateSecret === "true"
generate_secret(props) ==
    IF props.GenerateSecret.t = "boolean"
    THEN props.GenerateSecret.b
    ELSE StrictEq(props.GenerateSecret, Str(chTrue))

AppClientCreatePayload(props) ==
    [name |-> props.Name,
     type |-> props.Type,
     scopes |-> Or(props.Scopes, Arr(<<>>)),
     callback_urls |-> Or(props.CallbackUrls, Arr(<<>>)),
     logout_urls |-> Or(props.LogoutUrls, Arr(<<>>)),
     generate_secret |-> Bool(generate_secret(props))]

AppClientUpdatePayload(props) ==
    [name |-> props.Name,
     scopes |-> Or(props.Scopes, Arr(<<>>)),
     callback_urls |-> Or(props.CallbackUrls, Arr(<<>>)),
     logout_urls |-> Or(props.LogoutUrls, Arr(<<>>))]

\* the Data of a successful Create or Update, from the client the remote returned
AppClientData(client) ==
    [Name |-> Get(client, "name"),
     ClientId |-> Or(Get(client, "client_id"), Str(<<>>)),
     ClientSecret |-> Or(Get(client, "client_secret"), Str(<<>>)),
     Type |-> Get(client, "type")]

\* mutant: the physicalId of a new client taken from the declared Name
AppClientSuccessFromProps(ev, client) ==
    createSuccessResponse(Nullish(ev.PhysicalResourceId, ev.ResourceProperties.Name),
                          AppClientData(client))

AppClientSuccess(ev, client) ==
    createSuccessResponse(Nullish(ev.PhysicalResourceId, Get(client, "name")),
                          AppClientData(client))

\* mutant: the check compares the Name instead of the Type
AppClientNameChanged(ev) ==
    /\ ev.OldResourceProperties.present
    /\ ev.OldResourceProperties.props.Name # ev.ResourceProperties.Name

\* oldProps && oldProps.Type !== props.Type
AppClientTypeChanged(ev) ==
    /\ ev.OldResourceProperties.present
    /\ ev.OldResourceProperties.props.Type # ev.ResourceProperties.Type

TypeChangeMessage ==
    <<Lit("Cannot change app client type. This requires resource replacement.")>>

\* mutant: the declared Name preferred to the physicalId
AppClientDeleteNameDeclared(ev) == Or(ev.ResourceProperties.Name, ev.PhysicalResourceId)

AppClientDeleteName(ev) == Or(ev.PhysicalResourceId, ev.ResourceProperties.Name)

\* mutant: the reason names the host the handler talks to
AppClientCatchNamesHost(ev, error) ==
    createFailureResponse(
        Or(Or(ev.PhysicalResourceId, ev.ResourceProperties.Name), Str(chUnknown)),
        <<Txt([json |-> FALSE, text |-> AppClientBaseUrl(ev.ResourceProperties),
               value |-> <<>>]),
          Lit(": ")>> \o handleError(error))

\* the catch block of handler()
AppClientCatch(ev, error) ==
    createFailureResponse(
        Or(Or(ev.PhysicalResourceId, ev.ResourceProperties.Name), Str(chUnknown)),
        handleError(error))

(***************************************************************************)
(* cognito-resource-server handler: the remote calls.                      *)
(***************************************************************************)
createResourceServerRequest(baseUrl, server) ==
    signedRequest([method |-> "POST", hostname |-> baseUrl,
                   path |-> chResourceServers, body |-> JSONstringify(server)])

\* mutant: any 2xx of the model accepted as created
createResourceServerAccepts200(response) ==
    IF response.statusCode \notin {200, 201}
    THEN Throw(StatusMessage("Could not create resource: ", response))
    ELSE JSONparse(response.body)

createResourceServer(response) ==
    IF response.statusCode # 201
    THEN Throw(StatusMessage("Could not create resource: ", response))
    ELSE JSONparse(response.body)

readResourceServerRequest(baseUrl, identifier) ==
    signedRequest([method |-> "GET", hostname |-> baseUrl,
                   path |-> chResourceServers \o <<"/">> \o encodeURIComponent(identifier),
                   body |-> NoBody])

\* mutant: the body read whatever the status
readResourceServerAnyStatus(response) == JSONparse(response.body)

readResourceServer(response) ==
    IF response.statusCode # 200
    THEN Throw(StatusMessage("Could not read resource: ", response))
    ELSE JSONparse(response.body)

updateResourceServerRequest(baseUrl, update) ==
    signedRequest([method |-> "PUT", hostname |-> baseUrl,
                   path |-> chResourceServers \o <<"/">>
                            \o encodeURIComponent(update.identifier),
                   body |-> JSONstringify(update)])

updateResourceServer(response) ==
    IF response.statusCode # 200
    THEN Throw(StatusMessage("Could not update resource: ", response))
    ELSE Return(undefined)

deleteResourceServerRequest(baseUrl, identifier) ==
    signedRequest([method |-> "DELETE", hostname |-> baseUrl,
                   path |-> chResourceServers \o <<"/">> \o encodeURIComponent(identifier),
                   body |-> NoBody])

\* mutant: every status other than 200 only logged
deleteResourceServerLenient(response) == Return(undefined)

deleteResourceServer(response) ==
    IF response.statusCode # 200
    THEN Throw(StatusMessage("Could not delete resource: ", response))
    ELSE Return(undefined)

(***************************************************************************)
(* cognito-resource-server handler: the pieces of handler().               *)
(***************************************************************************)
ResourceServerBaseUrl(props) ==
    createUrlFromEnvironment(COGNITO_BASE_DOMAIN, chDelegated, props.Environment)

\* mutant: the two fields of a scope swapped
ScopeToRemoteSwapped(s) == [name |-> s.Description, description |-> s.Name]

\* (s) => ({ name: s.Name, description: s.Description })
ScopeToRemote(s) == [name |-> s.Name, description |-> s.Description]

\* props.Scopes?.map(...)
MapScopes(scopes) ==
    IF scopes.t = "undefined"
    THEN undefined
    ELSE Arr([i \in 1..Len(scopes.a) |-> ScopeToRemote(scopes.a[i])])

\* the ResourceServer of Create and the ResourceServerUpdateRequest of Update
ResourceServerPayload(props) ==
    [identifier |-> props.Identifier,
     name |-> props.Name,
     scopes |-> MapScopes(props.Scopes)]

\* the Data of a successful Create or Update, from the server the remote returned
ResourceServerData(server) ==
    [Identifier |-> Get(server, "identifier"),
     Name |-> Get(server, "name"),
     Scopes |-> Get(server, "scopes")]

ResourceServerSuccess(ev, server) ==
    createSuccessResponse(Nullish(ev.PhysicalResourceId, Get(server, "identifier")),
                          ResourceServerData(server))

ResourceServerDeleteIdentifier(ev) ==
    Or(ev.PhysicalResourceId, ev.ResourceProperties.Identifier)

\* mutant: the fallbacks taken only for a missing value, not for an empty one
ResourceServerCatchNullish(ev, error) ==
    createFailureResponse(
        Nullish(Nullish(ev.PhysicalResourceId, ev.ResourceProperties.Identifier),
                Str(chUnknown)),
        handleError(error))

\* the catch block of handler()
ResourceServerCatch(ev, error) ==
    createFailureResponse(
        Or(Or(ev.PhysicalResourceId, ev.ResourceProperties.Identifier), Str(chUnknown)),
        handleError(error))

(***************************************************************************)
(* Inputs: the events CloudFormation may send and what fetch may give.     *)
(***************************************************************************)
Environments == {Str(chProd), Str(chTest), Str(chDev)}
PhysicalIds == {undefined, Str(<<>>), Str(keyA), Str(keyB)}
\* the declared Name or Identifier: a string, possibly empty
DeclaredKeys == {Str(keyA), Str(<<>>)}
Types == {Str(chFrontend), Str(chBackend)}
GenerateSecrets ==
    {Bool(TRUE), Bool(FALSE), Str(chTrue), Str(chTrueCap), Str(chFalse), undefined}

NoOld == [present |-> FALSE, props |-> <<>>]
Old(props) == [present |-> TRUE, props |-> props]

AppClientLists ==
    {[Scopes |-> undefined, CallbackUrls |-> undefined, LogoutUrls |-> undefined],
     [Scopes |-> Arr(<<Str(<<"o", "p", "e", "n", "i", "d">>)>>),
      CallbackUrls |-> Arr(<<Str(<<"h", ":", "/", "c", "b">>)>>),
      LogoutUrls |-> Arr(<<>>)]}

AppClientProps(generateSecrets) ==
    {[Environment |-> env, Name |-> name, Type |-> type,
      Scopes |-> l.Scopes, CallbackUrls |-> l.CallbackUrls, LogoutUrls |-> l.LogoutUrls,
      GenerateSecret |-> gs] :
        env \in Environments, name \in DeclaredKeys, type \in Types,
        l \in AppClientLists, gs \in generateSecrets}

AppClientCreateEvents ==
    {[RequestType |-> "Create", PhysicalResourceId |-> id,
      ResourceProperties |-> props, OldResourceProperties |-> NoOld] :
        id \in PhysicalIds \ {Str(keyA)}, props \in AppClientProps(GenerateSecrets)}

AppClientUpdateEvents ==
    {[RequestType |-> "Update", PhysicalResourceId |-> id,
      ResourceProperties |-> props, OldResourceProperties |-> old] :
        id \in PhysicalIds, props \in AppClientProps({undefined}),
        old \in {NoOld}} \cup
    {[RequestType |-> "Update", PhysicalResourceId |-> id,
      ResourceProperties |-> props,
      OldResourceProperties |-> Old([props EXCEPT !.Type = type])] :
        id \in PhysicalIds, props \in AppClientProps({undefined}), type \in Types}

AppClientDeleteEvents ==
    {[RequestType |-> "Delete", PhysicalResourceId |-> id,
      ResourceProperties |-> props, OldResourceProperties |-> NoOld] :
        id \in PhysicalIds,
        props \in {p \in AppClientProps({undefined}) :
                     p.Type = Str(chBackend) /\ p.Scopes = undefined}}

\* declared scopes { Name, Description } and the lists of at most MaxScopes of them
DeclaredScopes ==
    {[Name |-> Str(<<"r">>), Description |-> Str(<<"x">>)],
     [Name |-> Str(<<"w">>), Description |-> Str(<<"y">>)]}

ScopeLists ==
    {undefined} \cup
    {Arr(l) : l \in UNION {[1..n -> DeclaredScopes] : n \in 0..MaxScopes}}

ResourceServerProps ==
    {[Environment |-> env, Name |-> Str(<<"n">>), Identifier |-> identifier,
      Scopes |-> scopes] :
        env \in Environments, identifier \in DeclaredKeys, scopes \in ScopeLists}

ResourceServerCreateEvents ==
    {[RequestType |-> "Create", PhysicalResourceId |-> id,
      ResourceProperties |-> props, OldResourceProperties |-> NoOld] :
        id \in PhysicalIds \ {Str(keyA)}, props \in ResourceServerProps}

ResourceServerUpdateEvents ==
    {[RequestType |-> "Update", PhysicalResourceId |-> id,
      ResourceProperties |-> props,
      OldResourceProperties |-> Old([props EXCEPT !.Scopes = undefined])] :
        id \in PhysicalIds, props \in ResourceServerProps}

ResourceServerDeleteEvents ==
    {[RequestType |-> "Delete", PhysicalResourceId |-> id,
      ResourceProperties |-> props, OldResourceProperties |-> NoOld] :
        id \in PhysicalIds,
        props \in {p \in ResourceServerProps : p.Scopes = undefined}}

\* status codes the remote may answer with
Statuses == {200, 201, 400, 404, 500}

\* a body that is not JSON
TextBody == [json |-> FALSE, text |-> <<"B", "a", "d">>, value |-> <<>>]
JsonBody(obj) == [json |-> TRUE, text |-> <<>>, value |-> obj]

\* app clients the remote may return: any of the keys or none, with or
\* without credentials
RemoteAppClients ==
    {Defined([name |-> name, type |-> cred.type,
              client_id |-> cred.client_id, client_secret |-> cred.client_secret]) :
        name \in {Str(keyA), Str(keyB), undefined},
        cred \in {[type |-> Str(chBackend), client_id |-> Str(<<"i", "d">>),
                   client_secret |-> Str(<<"s", "e", "c">>)],
                  [type |-> Str(chFrontend), client_id |-> undefined,
                   client_secret |-> Str(<<>>)]}}

\* resource servers the remote may return: with the scopes it was sent (those
\* in the body of the first call of the invocation), with other scopes or
\* with none
RemoteResourceServers(sent) ==
    {Defined([identifier |-> identifier, name |-> Str(<<"n">>), scopes |-> scopes]) :
        identifier \in {Str(keyA), Str(keyB), undefined},
        scopes \in {undefined, Get(sent, "scopes"),
                    Arr(<<[name |-> Str(<<"z">>), description |-> Str(<<>>)]>>)}}

Fetched(bodies) ==
    {[threw |-> TRUE, status |-> 0, text |-> NoBody]} \cup
    {[threw |-> FALSE, status |-> st, text |-> b] : st \in Statuses, b \in bodies}

\* what fetch may give for the calls of an invocation: anything for the call
\* whose body the handler reads, fewer bodies for the PUT
RemoteObjects ==
    IF handlerKind = "app-client"
    THEN RemoteAppClients
    ELSE RemoteResourceServers(calls[1].body.value)

FetchedAny == Fetched({TextBody} \cup {JsonBody(o) : o \in RemoteObjects})

FetchedPut ==
    Fetched({TextBody,
             JsonBody([name |-> Str(keyB), identifier |-> Str(keyB),
                       type |-> Str(chBackend), client_id |-> Str(<<"p", "u", "t">>)])})

(***************************************************************************)
(* The invocations.  handler() runs from its call to its first await, and  *)
(* from each await, when signedRequest settles, to the next await or to    *)
(* its return.  A new invocation starts when none is running.              *)
(***************************************************************************)
NoOutcome == [Status |-> "PENDING"]
NoDelete == <<>>
NoCreate == <<>>
NoProbe == [fn |-> "none"]

Init ==
    /\ handlerKind = "app-client"
    /\ event = [RequestType |-> "None"]
    /\ pc = "idle"
    /\ calls = <<>>
    /\ responses = <<>>
    /\ outcome = NoOutcome
    /\ deleted = NoDelete
    /\ created = NoCreate
    /\ \E env \in ProcessEnvs : COGNITO_BASE_DOMAIN = LoadedBaseDomain(env)
    /\ probe = NoProbe

NotRunning == pc = "idle"

\* between two invocations the Lambda starts a new process, which loads the
\* handler module
Loaded ==
    /\ NotRunning
    /\ \E env \in ProcessEnvs : COGNITO_BASE_DOMAIN' = LoadedBaseDomain(env)
    /\ UNCHANGED <<handlerKind, event, pc, calls, responses, outcome, deleted,
                   created, probe>>

\* the returned response has been delivered: the Lambda keeps nothing of the
\* invocation and waits for the next event
Delivered ==
    /\ pc = "done"
    /\ handlerKind' = "app-client"
    /\ event' = [RequestType |-> "None"]
    /\ pc' = "idle"
    /\ calls' = <<>>
    /\ responses' = <<>>
    /\ outcome' = NoOutcome
    /\ created' = IF event.RequestType = "Delete" /\ outcome.Status = "SUCCESS"
                  THEN NoCreate ELSE created
    /\ UNCHANGED <<deleted, probe, COGNITO_BASE_DOMAIN>>

\* mutant: the first request issued twice without awaiting
AwaitBoth(kind, ev, request, at) ==
    /\ handlerKind' = kind
    /\ event' = ev
    /\ calls' = <<request, request>>
    /\ responses' = <<>>
    /\ pc' = at
    /\ outcome' = NoOutcome
    /\ UNCHANGED <<deleted, created, probe, COGNITO_BASE_DOMAIN>>

\* handler() is called with ev and awaits its first signedRequest
Await(kind, ev, request, at) ==
    /\ handlerKind' = kind
    /\ event' = ev
    /\ calls' = <<request>>
    /\ responses' = <<>>
    /\ pc' = at
    /\ outcome' = NoOutcome
    /\ UNCHANGED <<deleted, created, probe, COGNITO_BASE_DOMAIN>>

\* handler() is called with ev and returns before any await
ReturnAtOnce(kind, ev, result) ==
    /\ handlerKind' = kind
    /\ event' = ev
    /\ calls' = <<>>
    /\ responses' = <<>>
    /\ pc' = "done"
    /\ outcome' = result
    /\ UNCHANGED <<deleted, created, probe, COGNITO_BASE_DOMAIN>>

\* the awaited signedRequest settled with fetched and handler() returns result
Finish(fetched, result) ==
    /\ responses' = Append(responses, fetched)
    /\ pc' = "done"
    /\ outcome' = result
    /\ UNCHANGED <<handlerKind, event, calls, probe, COGNITO_BASE_DOMAIN>>

------------------------------------------------------------------------------
\* handler(ev) of the app client, up to its first await or its return
AppClientHandler(ev) ==
    LET props == ev.ResourceProperties
    IN  CASE ev.RequestType = "Create" ->
               Await("app-client", ev,
                     createAppClientRequest(AppClientBaseUrl(props),
                                            AppClientCreatePayload(props)),
                     "POST")
          [] ev.RequestType = "Update" ->
               IF AppClientTypeChanged(ev)
               THEN ReturnAtOnce("app-client", ev, AppClientCatch(ev, TypeChangeMessage))
               ELSE Await("app-client", ev,
                          updateAppClientRequest(AppClientBaseUrl(props),
                                                 AppClientUpdatePayload(props)),
                          "PUT")
          [] ev.RequestType = "Delete" ->
               Await("app-client", ev,
                     deleteAppClientRequest(AppClientBaseUrl(props),
                                            AppClientDeleteName(ev)),
                     "DELETE")

AppClientCreate ==
    /\ NotRunning
    /\ \E ev \in AppClientCreateEvents : AppClientHandler(ev)

AppClientCreated ==
    /\ handlerKind = "app-client" /\ pc = "POST"
    /\ \E fetched \in FetchedAny :
         LET response == signedRequestReturn(fetched)
             made == IF response.threw THEN response ELSE createAppClient(response.value)
         IN  Finish(fetched,
                    IF made.threw
                    THEN AppClientCatch(event, made.error)
                    ELSE AppClientSuccess(event, made.value))
    /\ created' = IF outcome'.Status = "SUCCESS"
                  THEN <<handlerKind, outcome'.PhysicalResourceId>> ELSE created
    /\ deleted' = IF outcome'.Status = "SUCCESS" THEN NoDelete ELSE deleted

AppClientUpdate ==
    /\ NotRunning
    /\ \E ev \in AppClientUpdateEvents : AppClientHandler(ev)

AppClientUpdated ==
    /\ handlerKind = "app-client" /\ pc = "PUT"
    /\ \E fetched \in FetchedPut :
         LET response == signedRequestReturn(fetched)
             put == IF response.threw THEN response ELSE updateAppClient(response.value)
             props == event.ResourceProperties
         IN  IF put.threw
             THEN Finish(fetched, AppClientCatch(event, put.error))
             ELSE /\ responses' = Append(responses, fetched)
                  /\ calls' = Append(calls,
                                     readAppClientRequest(AppClientBaseUrl(props),
                                                          props.Name))
                  /\ pc' = "GET"
                  /\ UNCHANGED <<handlerKind, event, outcome, probe, COGNITO_BASE_DOMAIN>>
    /\ UNCHANGED <<deleted, created>>

AppClientRead ==
    /\ handlerKind = "app-client" /\ pc = "GET"
    /\ \E fetched \in FetchedAny :
         LET response == signedRequestReturn(fetched)
             updated == IF response.threw THEN response ELSE readAppClient(response.value)
         IN  Finish(fetched,
                    IF updated.threw
                    THEN AppClientCatch(event, updated.error)
                    ELSE AppClientSuccess(event, updated.value))
    /\ UNCHANGED <<deleted, created>>

AppClientDelete ==
    /\ NotRunning
    /\ \E ev \in AppClientDeleteEvents : AppClientHandler(ev)

AppClientDeleted ==
    /\ handlerKind = "app-client" /\ pc = "DELETE"
    /\ \E fetched \in FetchedAny :
         LET response == signedRequestReturn(fetched)
             gone == IF response.threw THEN response ELSE deleteAppClient(response.value)
             name == AppClientDeleteName(event)
         IN  /\ Finish(fetched,
                       IF gone.threw
                       THEN AppClientCatch(event, gone.error)
                       ELSE createSuccessResponse(name, <<>>))
             /\ deleted' = IF ~fetched.threw /\ fetched.status = 200
                           THEN <<handlerKind, name>> ELSE deleted
             /\ UNCHANGED created

------------------------------------------------------------------------------
\* handler(ev) of the resource server, up to its first await
ResourceServerHandler(ev) ==
    LET props == ev.ResourceProperties
    IN  CASE ev.RequestType = "Create" ->
               Await("resource-server", ev,
                     createResourceServerRequest(ResourceServerBaseUrl(props),
                                                 ResourceServerPayload(props)),
                     "POST")
          [] ev.RequestType = "Update" ->
               Await("resource-server", ev,
                     updateResourceServerRequest(ResourceServerBaseUrl(props),
                                                 ResourceServerPayload(props)),
                     "PUT")
          [] ev.RequestType = "Delete" ->
               Await("resource-server", ev,
                     deleteResourceServerRequest(ResourceServerBaseUrl(props),
                                                 ResourceServerDeleteIdentifier(ev)),
                     "DELETE")

ResourceServerCreate ==
    /\ NotRunning
    /\ \E ev \in ResourceServerCreateEvents : ResourceServerHandler(ev)

ResourceServerCreated ==
    /\ handlerKind = "resource-server" /\ pc = "POST"
    /\ \E fetched \in FetchedAny :
         LET response == signedRequestReturn(fetched)
             made == IF response.threw THEN response ELSE createResourceServer(response.value)
         IN  Finish(fetched,
                    IF made.threw
                    THEN ResourceServerCatch(event, made.error)
                    ELSE ResourceServerSuccess(event, made.value))
    /\ created' = IF outcome'.Status = "SUCCESS"
                  THEN <<handlerKind, outcome'.PhysicalResourceId>> ELSE created
    /\ deleted' = IF outcome'.Status = "SUCCESS" THEN NoDelete ELSE deleted

ResourceServerUpdate ==
    /\ NotRunning
    /\ \E ev \in ResourceServerUpdateEvents : ResourceServerHandler(ev)

ResourceServerUpdated ==
    /\ handlerKind = "resource-server" /\ pc = "PUT"
    /\ \E fetched \in FetchedPut :
         LET response == signedRequestReturn(fetched)
             put == IF response.threw THEN response ELSE updateResourceServer(response.value)
             props == event.ResourceProperties
         IN  IF put.threw
             THEN Finish(fetched, ResourceServerCatch(event, put.error))
             ELSE /\ responses' = Append(responses, fetched)
                  /\ calls' = Append(calls,
                                     readResourceServerRequest(
                                         ResourceServerBaseUrl(props), props.Identifier))
                  /\ pc' = "GET"
                  /\ UNCHANGED <<handlerKind, event, outcome, probe, COGNITO_BASE_DOMAIN>>
    /\ UNCHANGED <<deleted, created>>

ResourceServerRead ==
    /\ handlerKind = "resource-server" /\ pc = "GET"
    /\ \E fetched \in FetchedAny :
         LET response == signedRequestReturn(fetched)
             updated == IF response.threw THEN response ELSE readResourceServer(response.value)
         IN  Finish(fetched,
                    IF updated.threw
                    THEN ResourceServerCatch(event, updated.error)
                    ELSE ResourceServerSuccess(event, updated.value))
    /\ UNCHANGED <<deleted, created>>

ResourceServerDelete ==
    /\ NotRunning
    /\ \E ev \in ResourceServerDeleteEvents : ResourceServerHandler(ev)

ResourceServerDeleted ==
    /\ handlerKind = "resource-server" /\ pc = "DELETE"
    /\ \E fetched \in FetchedAny :
         LET response == signedRequestReturn(fetched)
             gone == IF response.threw THEN response ELSE deleteResourceServer(response.value)
             identifier == ResourceServerDeleteIdentifier(event)
         IN  /\ Finish(fetched,
                       IF gone.threw
                       THEN ResourceServerCatch(event, gone.error)
                       ELSE createSuccessResponse(identifier, <<>>))
             /\ deleted' = IF ~fetched.threw /\ fetched.status = 200
                           THEN <<handlerKind, identifier>> ELSE deleted
             /\ UNCHANGED created

------------------------------------------------------------------------------
Next ==
    \/ AppClientCreate
    \/ AppClientCreated
    \/ AppClientUpdate
    \/ AppClientUpdated
    \/ AppClientRead
    \/ AppClientDelete
    \/ AppClientDeleted
    \/ ResourceServerCreate
    \/ ResourceServerCreated
    \/ ResourceServerUpdate
    \/ ResourceServerUpdated
    \/ ResourceServerRead
    \/ ResourceServerDelete
    \/ ResourceServerDeleted
    \/ Delivered
    \/ Loaded

Spec == Init /\ [][Next]_vars

(***************************************************************************)
(* The library functions and the constructs: a stack under synthesis calls *)
(* one of them, and may then call a method of the construct it made.       *)
(* probe holds the call made last and what it gave.  The Lambdas stay      *)
(* idle.                                                                   *)
(***************************************************************************)
MaxText == 3

\* texts over an alphabet that has the slash
Alphabet == {"/", "a"}
Texts == UNION {[1..n -> Alphabet] : n \in 0..MaxText}

(***************************************************************************)
(* String.prototype methods, on texts as tuples of characters.             *)
(***************************************************************************)
endsWith(text, c) == Len(text) > 0 /\ text[Len(text)] = c
startsWith(text, c) == Len(text) > 0 /\ text[1] = c
\* the characters at the 0-based indexes start .. end - 1
substring(text, start, end) == SubSeq(text, start + 1, end)
concat(text, sep, other) == text \o sep \o other

(***************************************************************************)
(* shared/url-tools.ts                                                     *)
(***************************************************************************)
\* mutant: the path joined as given
addPathToUrlPathAsGiven(args) ==
    IF Len(args.path) = 0
    THEN args.url
    ELSE LET newUrl == IF endsWith(args.url, "/")
                       THEN substring(args.url, 0, Len(args.url) - 1)
                       ELSE args.url
         IN  concat(newUrl, <<"/">>, args.path)

addPathToUrl(args) ==
    IF Len(args.path) = 0
    THEN args.url
    ELSE LET newUrl == IF endsWith(args.url, "/")
                       THEN substring(args.url, 0, Len(args.url) - 1)
                       ELSE args.url
             newPath == IF startsWith(args.path, "/")
                        THEN substring(args.path, 1, Len(args.path))
                        ELSE args.path
         IN  concat(newUrl, <<"/">>, newPath)

chExampleCom ==
    <<"h", "t", "t", "p", "s", ":", "/", "/", "e", "x", "a", "m", "p", "l",
      "e", ".", "c", "o", "m">>
chSimple == <<"s", "i", "m", "p", "l", "e">>

Urls == Texts \cup {chExampleCom, chExampleCom \o <<"/">>}
Paths == Texts \cup {<<"/", "/">> \o chSimple, chSimple}

AddPathToUrl ==
    /\ probe = NoProbe
    /\ \E url \in Urls, path \in Paths :
         LET args == [url |-> url, path |-> path]
         IN  probe' = [fn |-> "addPathToUrl", args |-> args,
                       returned |-> addPathToUrl(args)]
    /\ UNCHANGED handlerVars

(***************************************************************************)
(* The environment tables: vy-cognito-provider.ts (envConfigs) and         *)
(* cognito-info.ts (the envConfigs local to getCognitoInfo).               *)
(***************************************************************************)
chConstructor == <<"c", "o", "n", "s", "t", "r", "u", "c", "t", "o", "r">>

chAuthProd ==
    <<"h", "t", "t", "p", "s", ":", "/", "/", "a", "u", "t", "h", ".", "c",
      "o", "g", "n", "i", "t", "o", ".", "v", "y", "d", "e", "v", ".", "i",
      "o">>
chAuthStage ==
    <<"h", "t", "t", "p", "s", ":", "/", "/", "a", "u", "t", "h", ".", "s",
      "t", "a", "g", "e", ".", "c", "o", "g", "n", "i", "t", "o", ".", "v",
      "y", "d", "e", "v", ".", "i", "o">>
chAuthTest ==
    <<"h", "t", "t", "p", "s", ":", "/", "/", "a", "u", "t", "h", ".", "t",
      "e", "s", "t", ".", "c", "o", "g", "n", "i", "t", "o", ".", "v", "y",
      "d", "e", "v", ".", "i", "o">>
chCognitoIdp ==
    <<"h", "t", "t", "p", "s", ":", "/", "/", "c", "o", "g", "n", "i", "t",
      "o", "-", "i", "d", "p", ".", "e", "u", "-", "w", "e", "s", "t", "-",
      "1", ".", "a", "m", "a", "z", "o", "n", "a", "w", "s", ".", "c", "o",
      "m", "/">>
chJwks ==
    <<"/", ".", "w", "e", "l", "l", "-", "k", "n", "o", "w", "n", "/", "j",
      "w", "k", "s", ".", "j", "s", "o", "n">>
chOpenId ==
    <<"/", ".", "w", "e", "l", "l", "-", "k", "n", "o", "w", "n", "/", "o",
      "p", "e", "n", "i", "d", "-", "c", "o", "n", "f", "i", "g", "u", "r",
      "a", "t", "i", "o", "n">>
chPoolProd ==
    <<"e", "u", "-", "w", "e", "s", "t", "-", "1", "_", "e", "6", "o", "4",
      "6", "c", "1", "o", "E">>
chPoolStage ==
    <<"e", "u", "-", "w", "e", "s", "t", "-", "1", "_", "A", "U", "Y", "Q",
      "6", "7", "9", "z", "W">>
chPoolTest ==
    <<"e", "u", "-", "w", "e", "s", "t", "-", "1", "_", "Z", "5", "3", "b",
      "9", "A", "b", "e", "T">>

\* a piece of text given by its characters
Chars(chars) == Txt([json |-> FALSE, text |-> chars, value |-> <<>>])

\* an entry of the table in vy-cognito-provider.ts
CognitoDetails(authUrl, pool) ==
    [authUrl |-> authUrl,
     jwksUrl |-> chCognitoIdp \o pool \o chJwks,
     openIdUrl |-> chCognitoIdp \o pool \o chOpenId,
     issuer |-> chCognitoIdp \o pool,
     userPoolId |-> pool]

\* an entry of the table in getCognitoInfo
CognitoInfoDetails(authUrl, pool) ==
    [authUrl |-> authUrl,
     jwksUrl |-> chCognitoIdp \o pool \o chJwks,
     openIdUrl |-> chCognitoIdp \o pool \o chOpenId,
     issuer |-> chCognitoIdp \o pool]

envConfigs ==
    [name \in {chProd, chStage, chTest} |->
        CASE name = chProd -> CognitoDetails(chAuthProd, chPoolProd)
          [] name = chStage -> CognitoDetails(chAuthStage, chPoolStage)
          [] name = chTest -> CognitoDetails(chAuthTest, chPoolTest)]

getCognitoInfoEnvConfigs ==
    [name \in {chProd, chStage, chTest} |->
        CASE name = chProd -> CognitoInfoDetails(chAuthProd, chPoolProd)
          [] name = chStage -> CognitoInfoDetails(chAuthStage, chPoolStage)
          [] name = chTest -> CognitoInfoDetails(chAuthTest, chPoolTest)]

\* names every object literal answers to besides its own keys
InheritedKeys == {chConstructor}

\* table[key] of an object literal: the entry of an own key, the inherited
\* member of Object.prototype, or undefined
Member(table, key) ==
    IF key \in DOMAIN table THEN table[key]
    ELSE IF key \in InheritedKeys THEN [inherited |-> key]
    ELSE undefined

getCognitoDetailsForEnvironment(environment) ==
    LET config == Member(envConfigs, environment)
    IN  IF config = undefined
        THEN Throw(<<Lit("Unknown environment: "), Chars(environment),
                     Lit(". Valid values are: "),
                     Chars(chProd), Lit(", "), Chars(chStage), Lit(", "), Chars(chTest)>>)
        ELSE Return(config)

getCognitoInfo(environment) ==
    LET config == Member(getCognitoInfoEnvConfigs, environment)
    IN  IF config = undefined
        THEN Throw(<<Lit("Unknown environment: "), Chars(environment),
                     Lit(". Valid values are: "),
                     Chars(chProd), Lit(", "), Chars(chStage), Lit(", "), Chars(chTest),
                     Lit(", "), Chars(chDev)>>)
        ELSE Return(config)

\* environment names a caller may pass: the three of VyEnvironment, and others
EnvironmentNames == {chProd, chStage, chTest, chDev, chConstructor, <<>>, <<"a">>}

GetCognitoDetailsForEnvironment ==
    /\ probe = NoProbe
    /\ \E environment \in EnvironmentNames :
         probe' = [fn |-> "getCognitoDetailsForEnvironment",
                   args |-> [environment |-> environment],
                   returned |-> getCognitoDetailsForEnvironment(environment)]
    /\ UNCHANGED handlerVars

GetCognitoInfo ==
    /\ probe = NoProbe
    /\ \E environment \in EnvironmentNames :
         probe' = [fn |-> "getCognitoInfo",
                   args |-> [environment |-> environment],
                   returned |-> getCognitoInfo(environment)]
    /\ UNCHANGED handlerVars

(***************************************************************************)
(* cognito-app-client.ts: the CognitoAppClient construct that takes an     *)
(* AppClientProvider.                                                      *)
(***************************************************************************)
chOauthToken ==
    <<"/", "o", "a", "u", "t", "h", "2", "/", "t", "o", "k", "e", "n">>

\* text.replaceAll(pattern, replacement): the matches taken left to right,
\* none overlapping another
RECURSIVE replaceAll(_, _, _)
replaceAll(text, pattern, replacement) ==
    IF Len(text) < Len(pattern)
    THEN text
    ELSE IF SubSeq(text, 1, Len(pattern)) = pattern
    THEN replacement \o replaceAll(SubSeq(text, Len(pattern) + 1, Len(text)),
                                   pattern, replacement)
    ELSE <<Head(text)>> \o replaceAll(Tail(text), pattern, replacement)

\* the appClientProvider of a VyCognitoProvider of an environment
appClientProvider(environment) ==
    [environment |-> Str(environment),
     serviceToken |-> Str(<<"t", "o", "k", "e", "n">>),
     auth_url |-> Str(envConfigs[environment].authUrl)]

\* resource.getAttString(attribute)
getAttString(attribute) == [att |-> attribute]

\* mutant: the flag taken from the type alone
generateSecretOfType(props) == Bool(StrictEq(props.type, Str(chBackend)))

\* the effective flag of the constructor
generateSecret(props) ==
    Nullish(props.generateSecret, Bool(StrictEq(props.type, Str(chBackend))))

\* the warnings the constructor annotates the construct with
CognitoAppClientWarnings(props) ==
    IF /\ StrictEq(props.type, Str(chFrontend))
       /\ Truthy(props.callbackUrls)
       /\ Len(props.callbackUrls.a) = 0
    THEN <<"Frontend app clients typically require callbackUrls for OAuth flows">>
    ELSE <<>>

\* the custom resource the constructor declares
CognitoAppClientResource(props) ==
    [serviceToken |-> props.appClientProvider.serviceToken,
     properties |->
        [Environment |-> props.appClientProvider.environment,
         Name |-> props.name,
         Type |-> props.type,
         Scopes |-> Or(props.scopes, Arr(<<>>)),
         CallbackUrls |-> Or(props.callbackUrls, Arr(<<>>)),
         LogoutUrls |-> Or(props.logoutUrls, Arr(<<>>)),
         GenerateSecret |-> generateSecret(props)],
     resourceType |-> "Custom::VyCognitoAppClient"]

\* the auth_url stored in the secret
CognitoAppClientAuthUrl(props) ==
    replaceAll(IF Truthy(props.authUrlPath)
               THEN props.appClientProvider.auth_url.s \o props.authUrlPath.s
               ELSE props.appClientProvider.auth_url.s,
               <<"/", "/">>, <<"/">>)

\* the Secrets Manager secret the constructor declares
CognitoAppClientSecret(props) ==
    [secretName |->
        IF props.secretName.t = "undefined"
        THEN <<Lit("/vy/"), Chars(props.appClientProvider.environment.s),
               Lit("/cognito/app-client/"), Chars(props.name.s)>>
        ELSE <<Chars(props.secretName.s)>>,
     description |->
        <<Lit("auth_url, client_id and client_secret for Vy Cognito app client "),
          Chars(props.name.s)>>,
     secretStringValue |->
        JSONstringify([auth_url |-> Str(CognitoAppClientAuthUrl(props)),
                       client_id |-> getAttString("ClientId"),
                       client_secret |-> getAttString("ClientSecret")])]

\* new CognitoAppClient(scope, id, props)
CognitoAppClient(props) ==
    [name |-> props.name,
     warnings |-> CognitoAppClientWarnings(props),
     resource |-> CognitoAppClientResource(props),
     clientId |-> getAttString("ClientId"),
     clientSecretSecret |->
        IF Truthy(generateSecret(props)) THEN CognitoAppClientSecret(props) ELSE undefined,
     clientSecretArn |->
        IF Truthy(generateSecret(props)) THEN [arnOf |-> "ClientSecret"] ELSE undefined]

\* construct.grantReadSecret(grantee)
grantReadSecret(construct) ==
    IF construct.clientSecretSecret = undefined
    THEN Throw(<<Lit("Client secret is not stored in Secrets Manager")>>)
    ELSE Return([grantRead |-> construct.clientSecretSecret.secretName])

\* the props a stack may construct an app client with
CognitoAppClientProps ==
    {[appClientProvider |-> appClientProvider(environment),
      name |-> Str(keyA),
      type |-> type,
      scopes |-> scopes,
      callbackUrls |-> callbackUrls,
      logoutUrls |-> undefined,
      generateSecret |-> given,
      secretName |-> secretName,
      authUrlPath |-> authUrlPath] :
        environment \in {chProd, chStage, chTest},
        type \in {Str(chFrontend), Str(chBackend)},
        scopes \in {undefined, Arr(<<Str(<<"e">>)>>)},
        callbackUrls \in {undefined, Arr(<<>>), Arr(<<Str(keyB)>>)},
        given \in {undefined, Bool(TRUE), Bool(FALSE)},
        secretName \in {undefined, Str(<<"m", "y">>)},
        authUrlPath \in {undefined, Str(chOauthToken), Str(<<"/">>)}}

NewCognitoAppClient ==
    /\ probe = NoProbe
    /\ \E props \in CognitoAppClientProps :
         probe' = [fn |-> "CognitoAppClient", args |-> props,
                   returned |-> CognitoAppClient(props)]
    /\ UNCHANGED handlerVars

GrantReadSecret ==
    /\ probe.fn = "CognitoAppClient"
    /\ probe' = [fn |-> "grantReadSecret",
                 args |-> [props |-> probe.args, self |-> probe.returned],
                 returned |-> grantReadSecret(probe.returned)]
    /\ UNCHANGED handlerVars

(***************************************************************************)
(* The calls of the handlers that address one resource, for any key.       *)
(***************************************************************************)
MaxKey == 2

\* keys over an alphabet that has the characters a path gives a meaning to
KeyAlphabet == {"/", ":", "?", "%", "a"}
chApiVydev ==
    <<"h", "t", "t", "p", "s", ":", "/", "/", "a", "p", "i", ".", "v", "y",
      "d", "e", "v", ".", "i", "o">>
Keys == UNION {[1..n -> KeyAlphabet] : n \in 0..MaxKey} \cup {chApiVydev}

KeyedCalls ==
    {"readAppClient", "updateAppClient", "deleteAppClient",
     "readResourceServer", "updateResourceServer", "deleteResourceServer"}

\* the request the function sends for the key
KeyedRequest(fn, key) ==
    LET baseUrl == createUrlFromEnvironment(COGNITO_BASE_DOMAIN, chDelegated, Str(chProd))
    IN  CASE fn = "readAppClient" -> readAppClientRequest(baseUrl, Str(key))
          [] fn = "updateAppClient" ->
                updateAppClientRequest(baseUrl, [name |-> Str(key), type |-> Str(chBackend)])
          [] fn = "deleteAppClient" -> deleteAppClientRequest(baseUrl, Str(key))
          [] fn = "readResourceServer" -> readResourceServerRequest(baseUrl, Str(key))
          [] fn = "updateResourceServer" ->
                updateResourceServerRequest(baseUrl,
                                            [identifier |-> Str(key), name |-> Str(<<"n">>)])
          [] fn = "deleteResourceServer" -> deleteResourceServerRequest(baseUrl, Str(key))

CallForKey ==
    /\ probe = NoProbe
    /\ \E fn \in KeyedCalls, key \in Keys :
         probe' = [fn |-> "keyed", args |-> [call |-> fn, key |-> key],
                   returned |-> KeyedRequest(fn, key)]
    /\ UNCHANGED handlerVars

(***************************************************************************)
(* shared/sigv4-client.ts: signedRequest, await by await.                  *)
(***************************************************************************)
MaxCalls == 2

\* mutant: the request sent again before its response is read
signedRequestAwaitsRetry == <<"credentials", "sign", "fetch", "fetch", "text">>

\* what signedRequest awaits, in order: credentialsProvider(), signer.sign(),
\* fetch() and response.text()
signedRequestAwaits == <<"credentials", "sign", "fetch", "text">>

\* options a caller may pass
SignedRequestOptions ==
    {[method |-> method, hostname |-> AppClientBaseUrl([Environment |-> Str(chProd)]),
      path |-> chAppClients,
      body |-> IF method \in {"POST", "PUT"}
               THEN JSONstringify([name |-> Str(keyA)]) ELSE NoBody] :
        method \in {"GET", "POST", "PUT", "DELETE"}}

\* what fetch may give: a rejection, or any status with a body of any kind
LibFetched == Fetched({TextBody, JsonBody([name |-> Str(keyA)])})

NoFetch == [threw |-> FALSE, status |-> 0, text |-> NoBody]

\* the call is at the await named
SignedRequestAt(await) ==
    /\ probe.fn = "signedRequest"
    /\ probe.done = "pending"
    /\ probe.at <= Len(signedRequestAwaits)
    /\ signedRequestAwaits[probe.at] = await

\* the call goes on to its next await; when that is the fetch, the request
\* is sent before the call is suspended
SignedRequestOn(await) ==
    [probe EXCEPT !.at = @ + 1,
                  !.log = Append(@, await),
                  !.sent = IF /\ probe.at < Len(signedRequestAwaits)
                              /\ signedRequestAwaits[probe.at + 1] = "fetch"
                           THEN Append(@, signedRequest(probe.args))
                           ELSE @]

SignedRequestCall ==
    /\ \/ probe = NoProbe
       \/ /\ probe.fn = "signedRequest"
          /\ probe.done # "pending"
          /\ probe.call < MaxCalls
    /\ \E options \in SignedRequestOptions :
         probe' = [fn |-> "signedRequest", args |-> options,
                   call |-> IF probe = NoProbe THEN 1 ELSE probe.call + 1,
                   resolutions |-> IF probe = NoProbe THEN 0 ELSE probe.resolutions,
                   at |-> 1, log |-> <<>>, sent |-> <<>>, fetched |-> NoFetch,
                   done |-> "pending", returned |-> Return(undefined)]
    /\ UNCHANGED handlerVars

\* await credentialsProvider(): the provider chain is run for this call
SignedRequestCredentials ==
    /\ SignedRequestAt("credentials")
    /\ \E found \in BOOLEAN :
         probe' = IF found
                  THEN [SignedRequestOn("credentials") EXCEPT !.resolutions = @ + 1]
                  ELSE [probe EXCEPT
                           !.resolutions = @ + 1,
                           !.done = "rejected",
                           !.returned = Throw(<<Lit("Could not load credentials from any providers")>>)]
    /\ UNCHANGED handlerVars

\* await signer.sign(request) resolves and fetch(url, ...) is called
SignedRequestSign ==
    /\ SignedRequestAt("sign")
    /\ probe' = SignedRequestOn("sign")
    /\ UNCHANGED handlerVars

\* await fetch(url, ...) settles: the response arrives, or fetch rejects
SignedRequestFetch ==
    /\ SignedRequestAt("fetch")
    /\ \E fetched \in LibFetched :
         probe' = IF fetched.threw
                  THEN [probe EXCEPT !.fetched = fetched,
                                     !.done = "rejected",
                                     !.returned = signedRequestReturn(fetched)]
                  ELSE [SignedRequestOn("fetch") EXCEPT !.fetched = fetched]
    /\ UNCHANGED handlerVars

\* await response.text(), and the return
SignedRequestText ==
    /\ SignedRequestAt("text")
    /\ probe' = [SignedRequestOn("text") EXCEPT
                    !.done = "returned",
                    !.returned = signedRequestReturn(probe.fetched)]
    /\ UNCHANGED handlerVars

LibInit == Init

LibNext ==
    \/ AddPathToUrl
    \/ GetCognitoDetailsForEnvironment
    \/ GetCognitoInfo
    \/ NewCognitoAppClient
    \/ GrantReadSecret
    \/ CallForKey
    \/ SignedRequestCall
    \/ SignedRequestCredentials
    \/ SignedRequestSign
    \/ SignedRequestFetch
    \/ SignedRequestText

LibSpec == LibInit /\ [][LibNext]_vars

(***************************************************************************)
(* An invocation run a second time.  After any invocations, one that has   *)
(* returned is remembered in probe; the Lambda is then invoked again with  *)
(* the event of the remembered one, and the remote answers its calls as    *)
(* it answered the calls of the remembered one.  The Lambda may start a     *)
(* new process between any two invocations.  The second run is             *)
(* compared with the remembered one only, so the record of what was        *)
(* created and deleted starts afresh with it.                              *)
(***************************************************************************)
\* the invocation that has returned is the one to compare with
Remember ==
    /\ pc = "done"
    /\ probe = NoProbe
    /\ probe' = [fn |-> "handler", kind |-> handlerKind, event |-> event,
                 calls |-> calls, responses |-> responses, outcome |-> outcome,
                 domain |-> COGNITO_BASE_DOMAIN]
    /\ handlerKind' = "app-client"
    /\ event' = [RequestType |-> "None"]
    /\ pc' = "idle"
    /\ calls' = <<>>
    /\ responses' = <<>>
    /\ outcome' = NoOutcome
    /\ created' = NoCreate
    /\ deleted' = NoDelete
    /\ UNCHANGED COGNITO_BASE_DOMAIN

\* handler() is called with the remembered event
InvokedAgain ==
    /\ probe.fn = "handler"
    /\ NotRunning
    /\ IF probe.kind = "app-client"
       THEN AppClientHandler(probe.event)
       ELSE ResourceServerHandler(probe.event)

\* the call in flight is answered as the same call of the remembered
\* invocation was
AnsweredAgain ==
    /\ probe.fn = "handler"
    /\ pc \in {"POST", "PUT", "GET", "DELETE"}
    /\ Len(responses) < Len(probe.responses)
    /\ responses' = Append(responses, probe.responses[Len(responses) + 1])
    /\ \/ AppClientCreated
       \/ AppClientUpdated
       \/ AppClientRead
       \/ AppClientDeleted
       \/ ResourceServerCreated
       \/ ResourceServerUpdated
       \/ ResourceServerRead
       \/ ResourceServerDeleted

\* the invocations before the remembered one
Before == probe = NoProbe /\ Next

AgainInit == Init

AgainNext ==
    \/ Before
    \/ Loaded
    \/ Remember
    \/ InvokedAgain
    \/ AnsweredAgain

AgainSpec == AgainInit /\ [][AgainNext]_vars

(***************************************************************************)
(* Vocabulary of the properties.                                           *)
(***************************************************************************)
Running(kind, requestType) == handlerKind = kind /\ event.RequestType = requestType
Returned(kind, requestType) == Running(kind, requestType) /\ pc = "done"

\* the n-th call of the invocation was answered with a status code
Answered(n) == Len(responses) >= n /\ ~responses[n].threw
AnsweredWith(n, status) == Answered(n) /\ responses[n].status = status

Collection == IF handlerKind = "app-client" THEN chAppClients ELSE chResourceServers
KeyField == IF handlerKind = "app-client" THEN "name" ELSE "identifier"

\* the reason names the status code and carries the body text of the n-th answer
ReasonTells(n) ==
    /\ Contains(outcome.Reason, Num(responses[n].status))
    /\ Contains(outcome.Reason, Txt(responses[n].text))

\* the Data a handler is to build from the object the remote returned
DataFrom(obj) ==
    IF handlerKind = "app-client"
    THEN [Name |-> Get(obj, "name"),
          ClientId |-> IF "client_id" \in DOMAIN obj THEN obj.client_id ELSE Str(<<>>),
          ClientSecret |-> IF "client_secret" \in DOMAIN obj
                           THEN obj.client_secret ELSE Str(<<>>),
          Type |-> Get(obj, "type")]
    ELSE [Identifier |-> Get(obj, "identifier"),
          Name |-> Get(obj, "name"),
          Scopes |-> Get(obj, "scopes")]

(***************************************************************************)
(* C1.  For both handlers, a Create event without physicalId whose POST is *)
(* answered 201 with a JSON body yields SUCCESS, with physicalId the key   *)
(* the remote returned (name / identifier) and data built from the         *)
(* response body, not from the request properties.                         *)
(***************************************************************************)
C1_Create201 ==
    \A kind \in {"app-client", "resource-server"} :
        (/\ Returned(kind, "Create")
         /\ event.PhysicalResourceId = undefined
         /\ AnsweredWith(1, 201)
         /\ responses[1].text.json)
        => /\ outcome.Status = "SUCCESS"
           /\ outcome.PhysicalResourceId = Get(responses[1].text.value, KeyField)
           /\ outcome.Data = DataFrom(responses[1].text.value)

\* an app client created under a name other than the declared one
C1_Witness ==
    /\ Returned("app-client", "Create")
    /\ event.PhysicalResourceId = undefined
    /\ AnsweredWith(1, 201)
    /\ responses[1].text.json
    /\ event.ResourceProperties.Name = Str(keyA)
    /\ outcome.Status = "SUCCESS"
    /\ outcome.PhysicalResourceId = Str(keyB)
    /\ outcome.Data.ClientSecret = Str(<<"s", "e", "c">>)

(***************************************************************************)
(* C2.  For both handlers, a Create whose POST is answered with a status   *)
(* other than 201 yields FAILED, the reason contains the status code and   *)
(* the body text, and the invocation issued exactly one remote call.       *)
(***************************************************************************)
C2_CreateRejected ==
    \A kind \in {"app-client", "resource-server"} :
        (/\ Returned(kind, "Create")
         /\ Answered(1)
         /\ responses[1].status # 201)
        => /\ outcome.Status = "FAILED"
           /\ ReasonTells(1)
           /\ Len(calls) = 1
           /\ calls[1].method = "POST"

C2_Witness ==
    /\ Returned("resource-server", "Create")
    /\ AnsweredWith(1, 400)
    /\ responses[1].text = TextBody
    /\ outcome.Status = "FAILED"
    /\ Len(calls) = 1

(***************************************************************************)
(* C3.  In the app-client handler, an Update whose declared Type differs   *)
(* from the Type of its previous properties yields FAILED with a           *)
(* "requires replacement" reason and makes no remote call.                 *)
(***************************************************************************)
C3_TypeChangeFailsWithoutCall ==
    (/\ Running("app-client", "Update")
     /\ event.OldResourceProperties.present
     /\ event.OldResourceProperties.props.Type # event.ResourceProperties.Type)
    => /\ pc = "done"
       /\ calls = <<>>
       /\ responses = <<>>
       /\ outcome.Status = "FAILED"
       /\ outcome.Reason =
              <<Lit("Cannot change app client type. This requires resource replacement.")>>

C3_Witness ==
    /\ Returned("app-client", "Update")
    /\ event.OldResourceProperties.present
    /\ event.OldResourceProperties.props.Type = Str(chFrontend)
    /\ event.ResourceProperties.Type = Str(chBackend)
    /\ outcome.Status = "FAILED"
    /\ calls = <<>>

(***************************************************************************)
(* C4.  As stated: for both handlers, an Update with no immutable-field    *)
(* change issues a PUT and, only after the PUT answered 200, a GET; when   *)
(* the GET answers 200 the outcome is SUCCESS, its physicalId is the       *)
(* event's physicalId and its data is taken from the GET response body.    *)
(* The statement is read for events that carry a physicalId.               *)
(***************************************************************************)
ImmutableFieldChanged ==
    /\ handlerKind = "app-client"
    /\ event.OldResourceProperties.present
    /\ event.OldResourceProperties.props.Type # event.ResourceProperties.Type

UpdateInOrder ==
    /\ Len(calls) \in {1, 2}
    /\ calls[1].method = "PUT"
    /\ Len(calls) = 2 => (calls[2].method = "GET" /\ AnsweredWith(1, 200))

C4_AsStated ==
    \A kind \in {"app-client", "resource-server"} :
        (/\ Running(kind, "Update")
         /\ ~ImmutableFieldChanged
         /\ event.PhysicalResourceId # undefined)
        => /\ UpdateInOrder
           /\ (pc = "done" /\ AnsweredWith(2, 200))
              => /\ outcome.Status = "SUCCESS"
                 /\ outcome.PhysicalResourceId = event.PhysicalResourceId
                 /\ outcome.Data = DataFrom(responses[2].text.value)

(***************************************************************************)
(* C4, amended.  As C4, with SUCCESS promised only when the GET answers    *)
(* 200 with a JSON object as its body.                                     *)
(***************************************************************************)
C4_UpdateThenRead ==
    \A kind \in {"app-client", "resource-server"} :
        (/\ Running(kind, "Update")
         /\ ~ImmutableFieldChanged
         /\ event.PhysicalResourceId # undefined)
        => /\ UpdateInOrder
           /\ (pc = "done" /\ AnsweredWith(2, 200) /\ responses[2].text.json)
              => /\ outcome.Status = "SUCCESS"
                 /\ outcome.PhysicalResourceId = event.PhysicalResourceId
                 /\ outcome.Data = DataFrom(responses[2].text.value)

\* a PUT answered 200 with one client in its body, the GET with another
C4_Witness ==
    /\ Returned("app-client", "Update")
    /\ event.PhysicalResourceId = Str(keyA)
    /\ AnsweredWith(1, 200) /\ responses[1].text.json
    /\ AnsweredWith(2, 200) /\ responses[2].text.json
    /\ Get(responses[2].text.value, "client_id") # Get(responses[1].text.value, "client_id")
    /\ outcome.Status = "SUCCESS"
    /\ outcome.Data.ClientId = Str(<<"i", "d">>)

(***************************************************************************)
(* C5.  In the app-client handler, a Delete whose DELETE is answered 404   *)
(* yields SUCCESS with empty data, on a first Delete and on a Delete       *)
(* repeated after an earlier successful one.                               *)
(***************************************************************************)
C5_AppClientDelete404 ==
    (Returned("app-client", "Delete") /\ AnsweredWith(1, 404))
    => /\ outcome.Status = "SUCCESS"
       /\ outcome.Data = <<>>

\* the Delete of a key whose earlier DELETE the remote answered 200
C5_Witness ==
    /\ Returned("app-client", "Delete")
    /\ AnsweredWith(1, 404)
    /\ deleted = <<"app-client", Str(keyB)>>
    /\ calls[1].method = "DELETE"
    /\ calls[1].path = chAppClients \o <<"/">> \o EscapeChars(keyB)
    /\ outcome.Status = "SUCCESS"

(***************************************************************************)
(* C6.  In the resource-server handler, a Delete whose DELETE is answered  *)
(* 404 yields SUCCESS with empty data, as in the app-client handler.       *)
(***************************************************************************)
C6_ResourceServerDelete404 ==
    (Returned("resource-server", "Delete") /\ AnsweredWith(1, 404))
    => /\ outcome.Status = "SUCCESS"
       /\ outcome.Data = <<>>

(***************************************************************************)
(* C7.  For both handlers, a Delete whose DELETE is answered 200 yields    *)
(* SUCCESS with empty data and the deleted key as physicalId; a DELETE     *)
(* answered with a status other than 200 and 404 yields FAILED with a      *)
(* reason containing the status and the body.                              *)
(***************************************************************************)
C7_Delete ==
    \A kind \in {"app-client", "resource-server"} :
        /\ (Returned(kind, "Delete") /\ AnsweredWith(1, 200))
           => /\ outcome.Status = "SUCCESS"
              /\ outcome.Data = <<>>
              /\ outcome.PhysicalResourceId.t = "string"
              /\ calls[1].method = "DELETE"
              /\ calls[1].path =
                     Collection \o <<"/">> \o EscapeChars(outcome.PhysicalResourceId.s)
        /\ (Returned(kind, "Delete") /\ Answered(1) /\ responses[1].status \notin {200, 404})
           => /\ outcome.Status = "FAILED"
              /\ ReasonTells(1)

\* the Delete of a key that is not the declared Identifier
C7_Witness ==
    /\ Returned("resource-server", "Delete")
    /\ AnsweredWith(1, 200)
    /\ event.PhysicalResourceId = Str(keyB)
    /\ event.ResourceProperties.Identifier = Str(keyA)
    /\ outcome.Status = "SUCCESS"
    /\ outcome.PhysicalResourceId = Str(keyB)

(***************************************************************************)
(* C8.  In the app-client Create payload, generate_secret is true for      *)
(* GenerateSecret true and "true", is the given value for a boolean, and   *)
(* is false for every other value.                                         *)
(***************************************************************************)
C8_GenerateSecret ==
    (Running("app-client", "Create") /\ Len(calls) >= 1)
    => LET given == event.ResourceProperties.GenerateSecret
           sent == calls[1].body.value.generate_secret
       IN  /\ given \in {Bool(TRUE), Str(chTrue)} => sent = Bool(TRUE)
           /\ given.t = "boolean" => sent = given
           /\ given \notin {Bool(TRUE), Str(chTrue)} => sent = Bool(FALSE)

C8_Witness ==
    /\ Running("app-client", "Create")
    /\ Len(calls) = 1
    /\ event.ResourceProperties.GenerateSecret = Str(chFalse)
    /\ calls[1].body.value.generate_secret = Bool(FALSE)

(***************************************************************************)
(* C9.  In the resource-server handler, on Create and on Update, every     *)
(* declared scope {Name, Description} is sent as {name, description} with  *)
(* the same values, in the same order and number; an absent Scopes list is *)
(* sent as absent.                                                         *)
(***************************************************************************)
C9_ScopesSent ==
    \A requestType \in {"Create", "Update"} :
        (Running("resource-server", requestType) /\ Len(calls) >= 1)
        => LET declared == event.ResourceProperties.Scopes
               payload == calls[1].body.value
           IN  IF declared = undefined
               THEN "scopes" \notin DOMAIN payload
               ELSE /\ "scopes" \in DOMAIN payload
                    /\ payload.scopes.t = "array"
                    /\ Len(payload.scopes.a) = Len(declared.a)
                    /\ \A i \in 1..Len(declared.a) :
                         /\ DOMAIN payload.scopes.a[i] = {"name", "description"}
                         /\ payload.scopes.a[i].name = declared.a[i].Name
                         /\ payload.scopes.a[i].description = declared.a[i].Description

\* an Update that declares two different scopes
C9_Witness ==
    /\ Running("resource-server", "Update")
    /\ Len(calls) >= 1
    /\ event.ResourceProperties.Scopes.t = "array"
    /\ Len(event.ResourceProperties.Scopes.a) = 2
    /\ event.ResourceProperties.Scopes.a[1] # event.ResourceProperties.Scopes.a[2]
    /\ calls[1].body.value.scopes.a[1].name = Str(<<"w">>)

(***************************************************************************)
(* C10.  In the resource-server handler, the scopes in the data of a       *)
(* SUCCESS outcome of Create and Update are the remote's {name,            *)
(* description} pairs translated back to {Name, Description}, so that      *)
(* declared scopes echoed by the remote come back equal to the declared.   *)
(***************************************************************************)
ScopesBack(remote) ==
    Arr([i \in 1..Len(remote.a) |->
            [Name |-> remote.a[i].name, Description |-> remote.a[i].description]])

C10_ScopesRoundTrip ==
    \A requestType \in {"Create", "Update"} :
        (/\ Returned("resource-server", requestType)
         /\ outcome.Status = "SUCCESS"
         /\ "scopes" \in DOMAIN responses[Len(responses)].text.value)
        => LET returned == responses[Len(responses)].text.value.scopes
           IN  /\ outcome.Data.Scopes = ScopesBack(returned)
               /\ (/\ "scopes" \in DOMAIN calls[1].body.value
                   /\ returned = calls[1].body.value.scopes)
                  => outcome.Data.Scopes = event.ResourceProperties.Scopes

(***************************************************************************)
(* C11.  Whatever the event (Create, Update, Delete) and whatever the      *)
(* remote does (any status code, a network exception, a body that is not   *)
(* JSON), an invocation of either handler returns exactly one outcome,     *)
(* SUCCESS or FAILED: while it awaits a call it has no outcome and the     *)
(* call's settling lets it go on, and once it has returned its outcome is  *)
(* one of the two.                                                         *)
(***************************************************************************)
Awaiting == pc \in {"POST", "PUT", "GET", "DELETE"}

C11_AlwaysOneOutcome ==
    /\ Awaiting => (outcome = NoOutcome /\ ENABLED Next)
    /\ pc = "done" => outcome.Status \in {"SUCCESS", "FAILED"}
    /\ pc = "idle" => outcome = NoOutcome

\* the remote answers a Create with 201 and a body that is not JSON: the
\* exception of JSON.parse ends as a FAILED outcome
C11_Witness ==
    /\ Returned("resource-server", "Create")
    /\ AnsweredWith(1, 201)
    /\ ~responses[1].text.json
    /\ outcome.Status = "FAILED"
    /\ responses[1].text.text = <<"B", "a", "d">>
    /\ outcome.Reason =
           <<Lit("Unexpected token '"),
             Txt([json |-> FALSE, text |-> <<"B">>, value |-> <<>>]),
             Lit("', \""),
             Txt([json |-> FALSE, text |-> <<"B", "a", "d">>, value |-> <<>>]),
             Lit("\" is not valid JSON")>>

(***************************************************************************)
(* C12.  In every outcome of either handler, SUCCESS or FAILED, the        *)
(* physicalId is a non-empty string: also for a Create whose 201 body      *)
(* lacks the key or holds an empty key, and for events whose physicalId    *)
(* is the empty string.                                                    *)
(***************************************************************************)
NonEmptyString(x) == x.t = "string" /\ x.s # <<>>

C12_PhysicalIdNonEmpty ==
    pc = "done" => NonEmptyString(outcome.PhysicalResourceId)

(***************************************************************************)
(* C13.  Over the life of one logical resource (a Create that returned     *)
(* SUCCESS, then Updates and a Delete, each carrying the physicalId that   *)
(* Create returned), every outcome reports that same physicalId, also      *)
(* when an Update declares another Name / Identifier.                      *)
(***************************************************************************)
\* the running invocation is an Update or Delete of the resource created last
OfCreated ==
    /\ created # NoCreate
    /\ handlerKind = created[1]
    /\ event.RequestType \in {"Update", "Delete"}
    /\ event.PhysicalResourceId = created[2]

C13_PhysicalIdStable ==
    (pc = "done" /\ OfCreated) => outcome.PhysicalResourceId = created[2]

(***************************************************************************)
(* C14.  createUrlFromEnvironment(baseUrl, prefix, env) is                 *)
(* "{prefix}.{baseUrl}" for env "prod" and "{prefix}.{env}.{baseUrl}" for  *)
(* every other env, and both handlers resolve the host of every call with  *)
(* the prefix "delegated" and the base domain of the process:              *)
(* delegated.cognito.vydev.io for prod and delegated.test.cognito.vydev.io *)
(* for test where the base domain is cognito.vydev.io, delegated.id.x and  *)
(* delegated.test.id.x where it is id.x.                                   *)
(***************************************************************************)
HostOfProd ==
    <<"d", "e", "l", "e", "g", "a", "t", "e", "d", ".">> \o COGNITO_BASE_DOMAIN
HostOfTest ==
    <<"d", "e", "l", "e", "g", "a", "t", "e", "d", ".", "t", "e", "s", "t", ".">>
    \o COGNITO_BASE_DOMAIN

C14_Host ==
    \A i \in 1..Len(calls) :
        /\ event.ResourceProperties.Environment = Str(<<"p", "r", "o", "d">>)
           => calls[i].hostname = HostOfProd
        /\ event.ResourceProperties.Environment = Str(<<"t", "e", "s", "t">>)
           => calls[i].hostname = HostOfTest

\* a resource-server Update in prod: the PUT and the GET both go to the prod host
C14_Witness ==
    /\ Running("resource-server", "Update")
    /\ event.ResourceProperties.Environment = Str(<<"p", "r", "o", "d">>)
    /\ Len(calls) = 2
    /\ calls[1].hostname =
           <<"d", "e", "l", "e", "g", "a", "t", "e", "d", ".", "c", "o", "g", "n",
             "i", "t", "o", ".", "v", "y", "d", "e", "v", ".", "i", "o">>
    /\ calls[2].hostname = calls[1].hostname

(***************************************************************************)
(* C18.  For both handlers, an Update whose PUT is answered with a status  *)
(* other than 200 yields FAILED with a reason containing the status and    *)
(* the body, and issues no GET; an Update whose PUT is answered 200 and    *)
(* whose follow-up GET is answered with a status other than 200 yields     *)
(* FAILED as well.                                                         *)
(***************************************************************************)
C18_UpdateFailures ==
    \A kind \in {"app-client", "resource-server"} :
        /\ (Running(kind, "Update") /\ Len(calls) >= 2)
           => (AnsweredWith(1, 200) /\ calls[2].method = "GET")
        /\ (Returned(kind, "Update") /\ Answered(1) /\ responses[1].status # 200)
           => /\ outcome.Status = "FAILED"
              /\ ReasonTells(1)
              /\ Len(calls) = 1
              /\ calls[1].method = "PUT"
        /\ (Returned(kind, "Update") /\ AnsweredWith(1, 200)
              /\ Answered(2) /\ responses[2].status # 200)
           => /\ outcome.Status = "FAILED"
              /\ ReasonTells(2)

\* the PUT of a resource-server Update answered 200, the GET after it 500
C18_Witness ==
    /\ Returned("resource-server", "Update")
    /\ AnsweredWith(1, 200)
    /\ AnsweredWith(2, 500)
    /\ responses[2].text.json
    /\ calls[1].method = "PUT"
    /\ calls[2].method = "GET"
    /\ outcome.Status = "FAILED"

(***************************************************************************)
(* C19.  For both handlers, the DELETE call of a Delete event addresses    *)
(* the event's physicalId when the event carries a non-empty one, and the  *)
(* declared Name (app client) or Identifier (resource server) only when    *)
(* it carries none; a declared key that differs from the physicalId is     *)
(* never addressed.                                                        *)
(***************************************************************************)
DeclaredKey ==
    IF handlerKind = "app-client"
    THEN event.ResourceProperties.Name
    ELSE event.ResourceProperties.Identifier

C19_DeleteKey ==
    \A kind \in {"app-client", "resource-server"} :
        (Running(kind, "Delete") /\ pc # "idle")
        => /\ Len(calls) = 1
           /\ calls[1].method = "DELETE"
           /\ calls[1].path =
                  Collection \o <<"/">> \o
                  EscapeChars(IF NonEmptyString(event.PhysicalResourceId)
                              THEN event.PhysicalResourceId.s
                              ELSE DeclaredKey.s)

\* an app-client Delete whose physicalId differs from the declared Name
C19_Witness ==
    /\ Running("app-client", "Delete")
    /\ pc = "DELETE"
    /\ event.PhysicalResourceId = Str(keyB)
    /\ DeclaredKey = Str(keyA)
    /\ calls[1].path = chAppClients \o <<"/", "h", "%", "3", "A", "%", "2", "F", "b">>

(***************************************************************************)
(* C20.  For both handlers, the physicalId of every FAILED outcome is the  *)
(* physicalId of the event when it carries a non-empty one, else the       *)
(* declared Name (app client) or Identifier (resource server), else the    *)
(* literal "unknown"; the reason is the message of the error caught: that  *)
(* of the type check, of the failed fetch, of the rejected status or of    *)
(* the parse of the body.                                                  *)
(***************************************************************************)
\* the verb in the message of a call rejected for its status
VerbOf(method) ==
    CASE method = "POST" -> "Could not create resource: "
      [] method = "GET" -> "Could not read resource: "
      [] method = "PUT" -> "Could not update resource: "
      [] method = "DELETE" -> "Could not delete resource: "

\* the status the call of a method is to be answered with
Expected(method) == IF method = "POST" THEN 201 ELSE 200

\* the message of the error that ended the invocation
MessageCaught ==
    LET n == Len(responses)
    IN  IF n = 0
        THEN <<Lit("Cannot change app client type. This requires resource replacement.")>>
        ELSE IF responses[n].threw
        THEN <<Lit("fetch failed")>>
        ELSE IF responses[n].status # Expected(calls[n].method)
        THEN <<Lit(VerbOf(calls[n].method)), Num(responses[n].status),
               Lit(" - "), Txt(responses[n].text)>>
        ELSE IF Len(responses[n].text.text) = 0
        THEN <<Lit("Unexpected end of JSON input")>>
        ELSE <<Lit("Unexpected token '"),
               Txt([json |-> FALSE, text |-> SubSeq(responses[n].text.text, 1, 1),
                    value |-> <<>>]),
               Lit("', \""), Txt(responses[n].text), Lit("\" is not valid JSON")>>

C20_FailedOutcome ==
    (pc = "done" /\ outcome.Status = "FAILED")
    => /\ outcome.PhysicalResourceId =
              IF NonEmptyString(event.PhysicalResourceId)
              THEN event.PhysicalResourceId
              ELSE IF NonEmptyString(DeclaredKey)
              THEN DeclaredKey
              ELSE Str(<<"u", "n", "k", "n", "o", "w", "n">>)
       /\ outcome.Reason = MessageCaught

\* a resource-server Delete with an empty physicalId and an empty Identifier,
\* ended by a network failure
C20_Witness ==
    /\ Returned("resource-server", "Delete")
    /\ event.PhysicalResourceId = Str(<<>>)
    /\ DeclaredKey = Str(<<>>)
    /\ responses[1].threw
    /\ outcome.Status = "FAILED"
    /\ outcome.PhysicalResourceId = Str(<<"u", "n", "k", "n", "o", "w", "n">>)
    /\ outcome.Reason = <<Lit("fetch failed")>>

(***************************************************************************)
(* C16.  addPathToUrl({url, path}) is url unchanged when path is empty,    *)
(* and otherwise url without one trailing slash, if it has one, then "/",  *)
(* then path without one leading slash, if it has one; further slashes     *)
(* are kept: ("https://example.com/", "//simple") gives                    *)
(* "https://example.com//simple", ("https://example.com", "/") gives       *)
(* "https://example.com/".                                                 *)
(***************************************************************************)
Called(fn) == probe.fn = fn

\* text without its last character when that is a slash
LessTrailingSlash(text) ==
    IF text # <<>> /\ text[Len(text)] = "/"
    THEN [i \in 1..(Len(text) - 1) |-> text[i]]
    ELSE text

\* text without its first character when that is a slash
LessLeadingSlash(text) ==
    IF text # <<>> /\ Head(text) = "/" THEN Tail(text) ELSE text

C16_AddPathToUrl ==
    Called("addPathToUrl")
    => LET url == probe.args.url
           path == probe.args.path
       IN  /\ path = <<>> => probe.returned = url
           /\ path # <<>>
              => probe.returned = LessTrailingSlash(url) \o <<"/">> \o LessLeadingSlash(path)
           /\ (url = chExampleCom \o <<"/">> /\ path = <<"/", "/">> \o chSimple)
              => probe.returned = chExampleCom \o <<"/", "/">> \o chSimple
           /\ (url = chExampleCom /\ path = <<"/">>)
              => probe.returned = chExampleCom \o <<"/">>

\* the join of a url that ends in two slashes with a path that starts with two
C16_Witness ==
    /\ Called("addPathToUrl")
    /\ probe.args.url = <<"a", "/", "/">>
    /\ probe.args.path = <<"/", "/", "a">>
    /\ probe.returned = <<"a", "/", "/", "/", "a">>

(***************************************************************************)
(* C15.  getCognitoDetailsForEnvironment and getCognitoInfo return the     *)
(* compiled-in config for exactly the names prod, stage and test; for      *)
(* every other name they fail with an 'Unknown environment' error whose    *)
(* list of valid values is exactly the names the lookup accepts, and       *)
(* never return another config.                                            *)
(***************************************************************************)
\* the names a message lists after "Valid values are: "
ValidValues(message) ==
    {message[i].body.text : i \in {j \in 4..Len(message) : message[j].k = "txt"}}

C15_EnvironmentLookup ==
    \A fn \in {"getCognitoDetailsForEnvironment", "getCognitoInfo"} :
        Called(fn)
        => LET environment == probe.args.environment
               table == IF fn = "getCognitoInfo" THEN getCognitoInfoEnvConfigs ELSE envConfigs
           IN  /\ environment \in {chProd, chStage, chTest}
                  => /\ ~probe.returned.threw
                     /\ probe.returned.value = table[environment]
               /\ environment \notin {chProd, chStage, chTest}
                  => /\ probe.returned.threw
                     /\ probe.returned.error[1] = Lit("Unknown environment: ")
                     /\ ValidValues(probe.returned.error) = {chProd, chStage, chTest}

(***************************************************************************)
(* C17.  In the CognitoAppClient construct that takes a provider, the      *)
(* effective generate-secret flag is props.generateSecret when given, and  *)
(* otherwise true for a backend and false for a frontend client; the flag  *)
(* is what is sent as GenerateSecret; a Secrets Manager secret is created  *)
(* if and only if the flag is true; grantReadSecret throws 'Client secret  *)
(* is not stored in Secrets Manager' if and only if no secret was created. *)
(***************************************************************************)
\* the flag the claim asks for
FlagOf(props) ==
    IF props.generateSecret.t = "boolean"
    THEN props.generateSecret.b
    ELSE props.type = Str(<<"b", "a", "c", "k", "e", "n", "d">>)

C17_GenerateSecretFlag ==
    /\ Called("CognitoAppClient")
       => /\ probe.returned.resource.properties.GenerateSecret = Bool(FlagOf(probe.args))
          /\ (probe.returned.clientSecretSecret # undefined) <=> FlagOf(probe.args)
    /\ Called("grantReadSecret")
       => /\ probe.returned.threw <=> (probe.args.self.clientSecretSecret = undefined)
          /\ probe.returned.threw <=> ~FlagOf(probe.args.props)
          /\ probe.returned.threw
             => probe.returned.error =
                    <<Lit("Client secret is not stored in Secrets Manager")>>

\* a backend client declared with generateSecret false: no secret, and
\* grantReadSecret throws
C17_Witness ==
    /\ Called("grantReadSecret")
    /\ probe.args.props.type = Str(chBackend)
    /\ probe.args.props.generateSecret = Bool(FALSE)
    /\ probe.args.self.resource.properties.GenerateSecret = Bool(FALSE)
    /\ probe.args.self.clientSecretSecret = undefined
    /\ probe.returned.threw

(***************************************************************************)
(* C21.  In every outcome of either handler, Data is present only when     *)
(* the status is SUCCESS and Reason only when it is FAILED: no FAILED      *)
(* outcome carries Data, no SUCCESS outcome carries a Reason.              *)
(***************************************************************************)
C21_DataOrReason ==
    pc = "done"
    => /\ outcome.Status = "SUCCESS"
          => ("Data" \in DOMAIN outcome /\ "Reason" \notin DOMAIN outcome)
       /\ outcome.Status = "FAILED"
          => ("Reason" \in DOMAIN outcome /\ "Data" \notin DOMAIN outcome)

\* an Update that ends FAILED at its GET although the remote sent an object
C21_Witness ==
    /\ Returned("app-client", "Update")
    /\ AnsweredWith(2, 404)
    /\ responses[2].text.json
    /\ outcome.Status = "FAILED"
    /\ DOMAIN outcome = {"Status", "PhysicalResourceId", "Reason"}

(***************************************************************************)
(* C22.  When the Environment of the event is not one of the recognized    *)
(* environment names (prod, stage, test), the invocation fails with an     *)
(* unknown-environment reason when the host is resolved and makes no       *)
(* remote call: no host name is derived from an unrecognized name.         *)
(***************************************************************************)
Recognized == {Str(chProd), Str(chStage), Str(chTest)}

C22_UnknownEnvironment ==
    (pc # "idle" /\ event.ResourceProperties.Environment \notin Recognized)
    => /\ calls = <<>>
       /\ pc = "done"
       /\ outcome.Status = "FAILED"
       /\ outcome.Reason[1] = Lit("Unknown environment: ")

(***************************************************************************)
(* C23.  The auth_url that the CognitoAppClient construct stores in the    *)
(* client secret is the path join of the provider's auth_url with the      *)
(* optional authUrlPath, addPathToUrl({url: auth_url, path: authUrlPath or *)
(* ""}): the base URL unchanged, with its scheme "https://", when no path  *)
(* is given, base and path joined by a single slash otherwise.             *)
(***************************************************************************)
\* the auth_url in the secret of the construct made
StoredAuthUrl == probe.returned.clientSecretSecret.secretStringValue.value.auth_url

C23_AuthUrlJoin ==
    (Called("CognitoAppClient") /\ probe.returned.clientSecretSecret # undefined)
    => LET base == probe.args.appClientProvider.auth_url.s
           path == IF probe.args.authUrlPath.t = "string"
                   THEN probe.args.authUrlPath.s ELSE <<>>
       IN  /\ StoredAuthUrl = Str(addPathToUrl([url |-> base, path |-> path]))
           /\ path = <<>> => StoredAuthUrl = Str(base)
           /\ SubSeq(StoredAuthUrl.s, 1, 8) = <<"h", "t", "t", "p", "s", ":", "/", "/">>

(***************************************************************************)
(* C24.  Every invocation issues at most two remote calls, one after the   *)
(* other: a call starts only when the one before it has returned, so no    *)
(* invocation has two calls in flight.  Create issues at most one call     *)
(* (POST), Delete at most one (DELETE), Update at most two (PUT, then      *)
(* GET).                                                                   *)
(***************************************************************************)
\* the methods of the calls issued so far, in order
Methods == [i \in 1..Len(calls) |-> calls[i].method]

\* calls issued and not yet returned
InFlight == Len(calls) - Len(responses)

C24_CallsInSequence ==
    /\ Len(calls) <= 2
    /\ InFlight \in {0, 1}
    /\ Awaiting <=> InFlight = 1
    /\ event.RequestType = "Create" => Methods \in {<<>>, <<"POST">>}
    /\ event.RequestType = "Delete" => Methods \in {<<>>, <<"DELETE">>}
    /\ event.RequestType = "Update" => Methods \in {<<>>, <<"PUT">>, <<"PUT", "GET">>}

\* an Update whose GET was issued after the PUT had returned, and is in flight
C24_Witness ==
    /\ Running("resource-server", "Update")
    /\ pc = "GET"
    /\ Methods = <<"PUT", "GET">>
    /\ Len(responses) = 1
    /\ InFlight = 1

(***************************************************************************)
(* C28.  For the read, update and delete calls of both handlers the path   *)
(* is "/{collection}/" followed by the percent-encoding of the key: for    *)
(* every key, also one with "/", ":" or "?" in it such as                  *)
(* "https://api.vydev.io", the path has exactly one segment after the      *)
(* collection, and decoding that segment gives back the key.               *)
(***************************************************************************)
\* the character a percent-escape stands for
Unescaped(hex) ==
    CASE hex = <<"2", "F">> -> "/"
      [] hex = <<"3", "A">> -> ":"
      [] hex = <<"3", "F">> -> "?"
      [] hex = <<"2", "5">> -> "%"
      [] hex = <<"2", "0">> -> " "
      [] OTHER -> "invalid"

\* decodeURIComponent on a path segment
RECURSIVE Decoded(_)
Decoded(segment) ==
    IF segment = <<>> THEN <<>>
    ELSE IF Head(segment) = "%" /\ Len(segment) >= 3
    THEN <<Unescaped(SubSeq(segment, 2, 3))>> \o Decoded(SubSeq(segment, 4, Len(segment)))
    ELSE <<Head(segment)>> \o Decoded(Tail(segment))

\* the collection a keyed call belongs to
CollectionOf(fn) ==
    IF fn \in {"readAppClient", "updateAppClient", "deleteAppClient"}
    THEN <<"/", "a", "p", "p", "-", "c", "l", "i", "e", "n", "t", "s">>
    ELSE <<"/", "r", "e", "s", "o", "u", "r", "c", "e", "-",
           "s", "e", "r", "v", "e", "r", "s">>

C28_PathEncoded ==
    Called("keyed")
    => LET prefix == CollectionOf(probe.args.call) \o <<"/">>
           path == probe.returned.path
           segment == SubSeq(path, Len(prefix) + 1, Len(path))
       IN  /\ Len(path) >= Len(prefix)
           /\ SubSeq(path, 1, Len(prefix)) = prefix
           /\ \A i \in 1..Len(segment) : segment[i] \notin {"/", "?", ":"}
           /\ Decoded(segment) = probe.args.key

\* the PUT of the resource server whose identifier is a URL
C28_Witness ==
    /\ Called("keyed")
    /\ probe.args.call = "updateResourceServer"
    /\ probe.args.key = chApiVydev
    /\ probe.returned.method = "PUT"
    /\ probe.returned.path =
           chResourceServers \o <<"/", "h", "t", "t", "p", "s", "%", "3", "A",
                                  "%", "2", "F", "%", "2", "F">>
           \o <<"a", "p", "i", ".", "v", "y", "d", "e", "v", ".", "i", "o">>

(***************************************************************************)
(* C29.  On every successful Update, for both handlers, the PUT and the    *)
(* follow-up GET address the same remote key, and that key is the          *)
(* physicalId reported in the outcome: an Update neither changes nor reads *)
(* a resource other than the one its physicalId names, also when the       *)
(* declared Name / Identifier differs from the physicalId.                 *)
(***************************************************************************)
C29_UpdateAddressesPhysicalId ==
    \A kind \in {"app-client", "resource-server"} :
        (Returned(kind, "Update") /\ outcome.Status = "SUCCESS")
        => /\ calls[1].path = calls[2].path
           /\ outcome.PhysicalResourceId.t = "string"
           /\ calls[1].path =
                  Collection \o <<"/">> \o EscapeChars(outcome.PhysicalResourceId.s)

(***************************************************************************)
(* C30.  An invocation issues only the requests of its event kind: Create  *)
(* no PUT, DELETE or GET, Update no POST or DELETE, Delete no POST, PUT or *)
(* GET.  Hence over any sequence of invocations a remote resource is       *)
(* created only under a Create event and removed only under a Delete       *)
(* event.                                                                  *)
(***************************************************************************)
\* the methods an event kind may issue
MethodsOf(requestType) ==
    CASE requestType = "Create" -> {"POST"}
      [] requestType = "Update" -> {"PUT", "GET"}
      [] requestType = "Delete" -> {"DELETE"}
      [] OTHER -> {}

C30_OnlyMatchingRequests ==
    /\ [](\A i \in 1..Len(calls) : calls[i].method \in MethodsOf(event.RequestType))
    /\ [][/\ (created' # created /\ created' # NoCreate)
             => (event.RequestType = "Create" /\ calls[1].method = "POST")
          /\ deleted' \notin {deleted, NoDelete}
             => (event.RequestType = "Delete" /\ calls[1].method = "DELETE")]_vars

\* a Delete that removed a key while a resource of the other handler exists
C30_Witness ==
    /\ Returned("app-client", "Delete")
    /\ Methods = <<"DELETE">>
    /\ AnsweredWith(1, 200)
    /\ deleted = <<"app-client", Str(keyB)>>
    /\ created # NoCreate
    /\ created[1] = "resource-server"

(***************************************************************************)
(* C25.  Each call of signedRequest resolves credentials anew, then signs, *)
(* then sends exactly one HTTP request, never a second one, and returns    *)
(* the status code and the body text of the response unchanged whatever    *)
(* the status code: no status code becomes an error or another result.     *)
(***************************************************************************)
\* seq is an initial part of whole
IsPrefix(seq, whole) == Len(seq) <= Len(whole) /\ seq = SubSeq(whole, 1, Len(seq))

C25_SignedRequest ==
    Called("signedRequest")
    => /\ IsPrefix(probe.log, <<"credentials", "sign", "fetch", "text">>)
       /\ probe.resolutions \in {probe.call - 1, probe.call}
       /\ probe.resolutions = probe.call - 1 <=> (probe.log = <<>> /\ probe.done = "pending")
       /\ Len(probe.sent) = IF Len(probe.log) >= 2 THEN 1 ELSE 0
       /\ probe.fetched # NoFetch => Len(probe.sent) = 1
       /\ \A i \in 1..Len(probe.sent) :
             /\ probe.sent[i].method = probe.args.method
             /\ probe.sent[i].hostname = probe.args.hostname
             /\ probe.sent[i].path = probe.args.path
             /\ probe.sent[i].body = probe.args.body
       /\ probe.done = "returned"
          => /\ Len(probe.sent) = 1
             /\ ~probe.returned.threw
             /\ probe.returned.value.statusCode = probe.fetched.status
             /\ probe.returned.value.body = probe.fetched.text
       /\ probe.done = "rejected"
          => /\ probe.returned.threw
             /\ probe.fetched \in {NoFetch, [threw |-> TRUE, status |-> 0, text |-> NoBody]}

\* the second call of signedRequest, answered 500 with a body that is not
\* JSON, returns just that
C25_Witness ==
    /\ Called("signedRequest")
    /\ probe.call = 2
    /\ probe.resolutions = 2
    /\ probe.done = "returned"
    /\ probe.log = <<"credentials", "sign", "fetch", "text">>
    /\ probe.fetched.status = 500
    /\ probe.returned = Return([statusCode |-> 500, body |-> TextBody])

(***************************************************************************)
(* C26.  The outcome of an invocation is a function of its event and of    *)
(* the responses it receives only, and so are the method, the path and     *)
(* the body of its calls; the host of its calls depends on the             *)
(* COGNITO_BASE_DOMAIN its process was loaded with as well.  Two           *)
(* invocations with equal events and equal responses return equal          *)
(* outcomes and, in processes loaded with the same COGNITO_BASE_DOMAIN,    *)
(* issue equal calls, whatever invocations ran before.                     *)
(***************************************************************************)
\* an invocation is running, or has returned, for the second time
SecondRun == probe.fn = "handler" /\ pc # "idle"

\* a call without the host it goes to
LessHost(call) == [method |-> call.method, path |-> call.path, body |-> call.body]

Names == {keyA, keyB}

\* the events of a pair: as CloudFormation sends them, without a physicalId
\* for Create and with one for Update and Delete
PairedEvents ==
    {[ev EXCEPT !.ResourceProperties.Name = Str(name)] :
        ev \in {e \in AppClientCreateEvents \cup AppClientUpdateEvents
                        \cup AppClientDeleteEvents :
                  /\ e.ResourceProperties.Environment = Str(chTest)
                  /\ e.ResourceProperties.Scopes = undefined
                  /\ e.ResourceProperties.GenerateSecret \in {Bool(TRUE), undefined}
                  /\ e.OldResourceProperties = NoOld
                  /\ IF e.RequestType = "Create"
                     THEN e.PhysicalResourceId = undefined
                     ELSE e.PhysicalResourceId \in {Str(keyA), Str(keyB)}},
        name \in Names}

\* the resource an event is for
KeyOf(ev) ==
    IF ev.RequestType = "Create" THEN ev.ResourceProperties.Name
    ELSE ev.PhysicalResourceId

ItemPath(name) == chAppClients \o <<"/">> \o encodeURIComponent(name)

\* the app client the remote makes of a payload
RemoteAppClient(payload) ==
    IF Get(payload, "type") = Str(chBackend)
    THEN Defined([name |-> Get(payload, "name"), type |-> Str(chBackend),
                  client_id |-> Str(<<"i", "d">>),
                  client_secret |-> Str(<<"s", "e", "c">>)])
    ELSE Defined([name |-> Get(payload, "name"), type |-> Str(chFrontend),
                  client_id |-> undefined, client_secret |-> Str(<<>>)])

Absent == [present |-> FALSE]
Kept(client, settings) == [present |-> TRUE, client |-> client, settings |-> settings]

\* the remotes a pair may start from: each name absent or kept
Remotes ==
    [{ItemPath(Str(name)) : name \in Names} ->
        {Absent} \cup {Kept(RemoteAppClient([name |-> Str(name), type |-> type]), <<>>) :
                          name \in Names, type \in Types}]

Answer(status, body) == [threw |-> FALSE, status |-> status, text |-> body]
Served(answer, remote) == [answer |-> answer, remote |-> remote]

\* the remote serves a request: POST makes the client named in the body, PUT
\* changes the settings of the client at the path, GET returns it and DELETE
\* removes it; a client that is not there gives 404, one that is there
\* already 400
Remote(remote, request) ==
    LET item == IF request.method = "POST"
                THEN ItemPath(Get(request.body.value, "name"))
                ELSE request.path
        there == item \in DOMAIN remote /\ remote[item].present
    IN  CASE request.method = "POST" ->
               IF there \/ item \notin DOMAIN remote
               THEN Served(Answer(400, TextBody), remote)
               ELSE LET client == RemoteAppClient(request.body.value)
                    IN  Served(Answer(201, JsonBody(client)),
                               [remote EXCEPT ![item] = Kept(client, <<>>)])
          [] request.method = "PUT" ->
               IF ~there
               THEN Served(Answer(404, TextBody), remote)
               ELSE Served(Answer(200, TextBody),
                           [remote EXCEPT ![item].settings = request.body.value])
          [] request.method = "GET" ->
               IF ~there
               THEN Served(Answer(404, TextBody), remote)
               ELSE Served(Answer(200, JsonBody(remote[item].client)), remote)
          [] request.method = "DELETE" ->
               IF ~there
               THEN Served(Answer(404, TextBody), remote)
               ELSE Served(Answer(200, TextBody), [remote EXCEPT ![item] = Absent])

\* an invocation as it is kept while the other one runs
NotStarted ==
    [kind |-> "app-client", event |-> [RequestType |-> "None"], pc |-> "idle",
     calls |-> <<>>, responses |-> <<>>, outcome |-> NoOutcome, served |-> <<>>]

\* the five runs of a pair: which invocation starts, and whether the remote
\* is the one the pair started from
PairSchedule ==
    <<[who |-> 1, first |-> TRUE], [who |-> 2, first |-> FALSE],
      [who |-> 2, first |-> TRUE], [who |-> 1, first |-> FALSE],
      [who |-> 1, first |-> TRUE]>>
PairRuns == Len(PairSchedule)
StartsWith(run) == PairSchedule[run].who
FromFirst(run) == PairSchedule[run].first

\* two events for different resources and a remote
Paired ==
    /\ probe = NoProbe
    /\ pc = "idle"
    /\ \E a \in PairedEvents, b \in PairedEvents, remote \in Remotes :
         /\ KeyOf(a) # KeyOf(b)
         /\ probe' = [fn |-> "pair", events |-> <<a, b>>, first |-> remote,
                      remote |-> remote, run |-> 1, who |-> 1,
                      served |-> <<>>, parked |-> NotStarted,
                      alone |-> <<>>, after |-> <<>>]
    /\ UNCHANGED handlerVars

\* handler() is called with the event of the invocation whose turn it is
PairStarted ==
    /\ probe.fn = "pair"
    /\ pc = "idle"
    /\ AppClientHandler(probe.events[probe.who])

\* the remote serves the request in flight
PairServed ==
    /\ probe.fn = "pair"
    /\ pc \in {"POST", "PUT", "GET", "DELETE"}
    /\ Len(probe.served) < Len(calls)
    /\ LET served == Remote(probe.remote, calls[Len(calls)])
       IN  probe' = [probe EXCEPT !.remote = served.remote,
                                  !.served = Append(@, served.answer)]
    /\ UNCHANGED handlerVars

\* the response arrives and the invocation goes on from its await
PairAnswered ==
    /\ probe.fn = "pair"
    /\ pc \in {"POST", "PUT", "GET", "DELETE"}
    /\ Len(responses) < Len(probe.served)
    /\ responses' = Append(responses, probe.served[Len(responses) + 1])
    /\ \/ AppClientCreated
       \/ AppClientUpdated
       \/ AppClientRead
       \/ AppClientDeleted

\* the run is over: what it gave is kept and the next run is set up
PairNextRun ==
    /\ probe.fn = "pair"
    /\ probe.run < PairRuns
    /\ pc = "done"
    /\ probe' = [probe EXCEPT
                   !.run = @ + 1,
                   !.who = StartsWith(probe.run + 1),
                   !.served = <<>>,
                   !.remote = IF FromFirst(probe.run + 1) THEN probe.first ELSE @,
                   !.alone = IF FromFirst(probe.run)
                             THEN Append(@, [calls |-> calls, outcome |-> outcome])
                             ELSE @,
                   !.after = IF FromFirst(probe.run) THEN @
                             ELSE Append(@, probe.remote)]
    /\ handlerKind' = "app-client"
    /\ event' = [RequestType |-> "None"]
    /\ pc' = "idle"
    /\ calls' = <<>>
    /\ responses' = <<>>
    /\ outcome' = NoOutcome
    /\ created' = NoCreate
    /\ deleted' = NoDelete
    /\ UNCHANGED COGNITO_BASE_DOMAIN

\* in the last run the invocation that is suspended, or has returned, leaves
\* the event loop to the other one
PairSwitched ==
    /\ probe.fn = "pair"
    /\ probe.run = PairRuns
    /\ pc # "idle"
    /\ probe.parked.pc # "done"
    /\ probe' = [probe EXCEPT
                   !.who = 3 - @,
                   !.served = probe.parked.served,
                   !.parked = [kind |-> handlerKind, event |-> event, pc |-> pc,
                               calls |-> calls, responses |-> responses,
                               outcome |-> outcome, served |-> probe.served]]
    /\ handlerKind' = probe.parked.kind
    /\ event' = probe.parked.event
    /\ pc' = probe.parked.pc
    /\ calls' = probe.parked.calls
    /\ responses' = probe.parked.responses
    /\ outcome' = probe.parked.outcome
    /\ UNCHANGED <<deleted, created, COGNITO_BASE_DOMAIN>>

PairInit == Init

PairNext ==
    \/ Paired
    \/ PairStarted
    \/ PairServed
    \/ PairAnswered
    \/ PairNextRun
    \/ PairSwitched

PairSpec == PairInit /\ [][PairNext]_vars

(***************************************************************************)
(* C27.  Two invocations for different resources, interleaved in any way   *)
(* at their awaits, each issue the calls and return the outcome they do    *)
(* when run alone, and leave the remote as running one after the other     *)
(* leaves it, in either order.                                             *)
(***************************************************************************)
\* both invocations of the interleaved run have returned
BothReturned ==
    /\ probe.fn = "pair"
    /\ probe.run = PairRuns
    /\ pc = "done"
    /\ probe.parked.pc = "done"

C27_UnrelatedInvocations ==
    BothReturned
    => /\ calls = probe.alone[probe.who].calls
       /\ outcome = probe.alone[probe.who].outcome
       /\ probe.parked.calls = probe.alone[3 - probe.who].calls
       /\ probe.parked.outcome = probe.alone[3 - probe.who].outcome
       /\ probe.remote = probe.after[1]
       /\ probe.remote = probe.after[2]

====
